---- MODULE Spec2Model ----
(***************************************************************************)
(* flowy: flow/task history engine, scheduler service (cron triggers,      *)
(* one-shot jobs, trigger reconciliation, orphan detection).               *)
(*                                                                         *)
(* Time is a logical clock `now`; datetimes are clock readings and NoTime  *)
(* stands for a NULL column.  Row ids are allocated by AUTOINCREMENT and   *)
(* never reused; id 0 stands for None.  JSON payloads are represented by   *)
(* the tag of the code path that produced them.  Store writes succeed     *)
(* while storeUp holds.  Migration versions are numbered 1, 2, ... in the  *)
(* order of their version strings.                                         *)
(***************************************************************************)
EXTENDS Integers, Sequences, FiniteSets, TLC

\* ------------------------------------------------------------------ bounds
MaxFh == 2
MaxTh == 2
MaxTime == 3
NumWorkers == 2
NumJobWorkers == 1
MaxDepth == 3
MaxDelay == 3
MaxTriggers == 1
MaxCap == 2
PendingTimeout == 1
RunningTimeout == 1
MaxFuncs == 2
MaxRetention == 2
MaxStarts == 2

Workers == 1..NumWorkers
\* pool threads that take scheduler jobs in the ad-hoc specification
JobWorkers == 1..NumJobWorkers
FhIds == 1..MaxFh
ThIds == 1..MaxTh
TriggerIds == 1..MaxTriggers
NoTime == 0 - 1
NoTok == 0 - 1

\* flow ids known to the Flow table; only those in Registry have a wrapper
\* registered in this process
\* (a flow id is the sequence of its "_"-separated segments)
FlowIds == {<<"f">>, <<"f", "x">>}
Registry == {<<"f">>}

Terminal == {"completed", "failed"}
TaskTerminal == {"completed", "failed", "completed_with_serialization_error"}

VARIABLES
    fh,        \* FlowHistory table: id -> row (status "absent": no such row)
    nFh,       \* highest FlowHistory id handed out
    th,        \* TaskHistory table
    nTh,       \* highest TaskHistory id handed out
    stack,     \* per worker thread: the call chain of wrappers / job functions
    ctxFlow,   \* per worker thread: flow_history_id_var
    ctxTask,   \* per worker thread: task_history_id_var
    now,       \* clock
    immJobs,   \* live one-shot jobs of the scheduler
    orphanPc,  \* position of the orphan-detection pass
    orphanNow, \* `now` read at the start of the pass
    trig,      \* Trigger table
    nTrig,     \* highest Trigger id handed out
    jobs,      \* live cron jobs of the scheduler, keyed by trigger id
    instances, \* executor's count of running instances per cron job id
    syncResult,\* counters returned by the last reconciliation pass
    syncCount, \* reconciliation passes since the last trigger mutation
    adhocIds,  \* observation: the row ids add_immediate_job has returned
    lastRet,   \* observation: the last top-level invocation that returned
    lastCall,  \* observation: what the last finished call handed to its caller
    storeUp,   \* whether the history store accepts queries and commits
    migFiles,  \* number of migration files written so far (versions 1..migFiles)
    migHeld,   \* versions written on a branch and not in the installed release
    histDb,    \* the history database file as the migration manager sees it
    migRun,    \* run_migrations: its locals while it runs, its result after
    flowTable, \* Flow table: the set of its rows
    flowRegistry, \* _flow_registry: flow id -> registered function (0: none)
    lastDefine,\* observation: the arguments of the latest flow(...) definition
    histFile,  \* whether the history database file exists
    engine,    \* SchedulerService's class state: _scheduler, _scheduler_started
    syncSnap   \* a reconciliation pass in flight: what it read when it began

vars == <<fh, nFh, th, nTh, stack, ctxFlow, ctxTask, now, immJobs, orphanPc,
          orphanNow, trig, nTrig, jobs, instances, syncResult, syncCount,
          adhocIds, lastRet, lastCall, storeUp, migFiles, migHeld, histDb, migRun,
          flowTable, flowRegistry, lastDefine, histFile, engine, syncSnap>>

histVars == <<fh, nFh, th, nTh>>
execVars == <<stack, ctxFlow, ctxTask>>
orphanVars == <<orphanPc, orphanNow>>
trigVars == <<trig, nTrig, jobs, instances, syncResult, syncCount>>
callVars == <<lastCall, storeUp>>
migVars == <<migFiles, migHeld, histDb, migRun, histFile>>
defVars == <<flowTable, flowRegistry, lastDefine>>
schedVars == <<engine, syncSnap>>

\* ------------------------------------------------------------ history store
AbsentFh == [flow_id |-> <<>>, status |-> "absent", created_at |-> NoTime,
             start_time |-> NoTime, end_time |-> NoTime, output_data |-> "",
             flow_metadata |-> ""]

AbsentTh == [flow_history_id |-> 0, status |-> "absent", start_time |-> NoTime,
             end_time |-> NoTime, output_data |-> "", progress |-> NoTime]

FhExists(h) == h \in FhIds /\ fh[h].status # "absent"
ThExists(t) == t \in ThIds /\ th[t].status # "absent"

\* db.create_flow_history: a new row; flow_metadata defaults to ""
create_flow_history(f, created, start, st, meta) ==
    [fh EXCEPT ![nFh + 1] = [flow_id |-> f, status |-> st, created_at |-> created,
                             start_time |-> start, end_time |-> NoTime,
                             output_data |-> "", flow_metadata |-> meta]]

\* db.update_flow_history: end_time, output and status of an existing row
update_flow_history(tbl, h, end, out, st) ==
    IF h \in FhIds /\ tbl[h].status # "absent"
    THEN [tbl EXCEPT ![h].end_time = end, ![h].output_data = out, ![h].status = st]
    ELSE tbl

\* a create_task_history that does not store the flow_history_id it is given
create_task_history_unlinked(fhid, start, st) ==
    [th EXCEPT ![nTh + 1] = [flow_history_id |-> 0, status |-> st,
                             start_time |-> start, end_time |-> NoTime,
                             output_data |-> "", progress |-> NoTime]]

\* db.create_task_history
create_task_history(fhid, start, st) ==
    [th EXCEPT ![nTh + 1] = [flow_history_id |-> fhid, status |-> st,
                             start_time |-> start, end_time |-> NoTime,
                             output_data |-> "", progress |-> NoTime]]

\* db.update_task_history
update_task_history(tbl, t, end, out, st) ==
    IF t \in ThIds /\ tbl[t].status # "absent"
    THEN [tbl EXCEPT ![t].end_time = end, ![t].output_data = out, ![t].status = st]
    ELSE tbl

\* ------------------------------------------------------------- call chains
\* kind: "flow" (flow wrapper), "task" (task wrapper), "imm"
\* (execute_immediate_flow), "trig" (execute_trigger).
\* hid: the wrapper's flow_history_id / task_history_id, or the row id handed
\* to execute_immediate_flow.  tok: the value flow_history_id_var had before
\* the wrapper's set() (NoTok: no token).  t: trigger id of a cron firing.
\* res: what execute_flow returned to the job function ("ok": success,
\* "fail": success false with the exception, "not_found": success false with
\* the not-found message).  made: the row the
\* flow wrapper inserted during this job.  via: how the flow was invoked.
\* args: whether the input dict binds to the flow function's signature.
\* prog (observation): the last value a task body passed to set_progress.
\* log (observation): for a flow body, the tasks it has called so far, each
\* as <<last value passed to set_progress, how the task ended>>.
Frame(kind, pc, f, hid, tok, t, via, made, args) ==
    [kind |-> kind, pc |-> pc, flow |-> f, hid |-> hid, tok |-> tok, t |-> t,
     res |-> "none", made |-> made, via |-> via, args |-> args,
     prog |-> NoTime, log |-> <<>>]

Top(w) == stack[w][Len(stack[w])]
Push(w, fr) == [stack EXCEPT ![w] = Append(@, fr)]
Pop(w) == [stack EXCEPT ![w] = SubSeq(@, 1, Len(@) - 1)]
InBody(w) == stack[w] # <<>> /\ Top(w).kind \in {"flow", "task"}
CanCall(w) == Len(stack[w]) < MaxDepth /\ (stack[w] = <<>> \/ InBody(w))

NoRet == [kind |-> "none", rows |-> {}, status |-> {}]

\* the rows of an invocation and their statuses, read when the call returns
Returned(kind, rows, tbl) ==
    [kind |-> kind, rows |-> rows, status |-> {tbl[r].status : r \in rows}]

\* ------------------------------------------------------- execution context
\* context.get_flow_history_id: the ContextVar's value in the calling thread
\* a lookup that falls back to the newest row when nothing is bound
get_flow_history_id_latest(w) == IF ctxFlow[w] # 0 THEN ctxFlow[w] ELSE nFh

get_flow_history_id(w) == ctxFlow[w]

\* a binding held in one process-wide slot instead of one slot per thread
BindFlowId_shared(w, id) == [x \in Workers |-> id]

\* flow_history_id_var.set(id) in thread w (flow.py line 146)
BindFlowId(w, id) == [ctxFlow EXCEPT ![w] = id]

\* flow_history_id_var.reset(token) in thread w (flow.py lines 160-161)
ResetFlowId(w, tok) == IF tok # NoTok THEN [ctxFlow EXCEPT ![w] = tok] ELSE ctxFlow

\* ------------------------------------------------------------- flow engine
\* a lookup that finds a function for every id
get_flow_func_any(f) == TRUE

\* flow.get_flow_func: whether the registry holds a function for the id
get_flow_func(f) == f \in Registry

\* flow.decorate.wrapper, lines 84-146: promote the row named by the metadata
\* or insert a running row, then bind flow_history_id_var.  `base` is the
\* caller's chain on worker w.  A store error is caught and logged: no row
\* is written, and the wrapper goes on with the id it has (the metadata's id,
\* or none when the insert failed, and then nothing is bound).
FlowEnter(w, base, f, metaHid, meta, via) ==
    LET insert == metaHid = 0 /\ storeUp
        hid == IF metaHid # 0 THEN metaHid ELSE IF storeUp THEN nFh + 1 ELSE 0
        made == IF insert THEN nFh + 1 ELSE 0
    IN  /\ insert => nFh < MaxFh
        /\ fh' = IF metaHid # 0
                 THEN IF FhExists(metaHid) /\ storeUp
                      THEN [fh EXCEPT ![metaHid].status = "running",
                                      ![metaHid].start_time = now,
                                      ![metaHid].flow_metadata = meta]
                      ELSE fh
                 ELSE IF storeUp
                      THEN create_flow_history(f, now, now, "running", "")
                      ELSE fh
        /\ nFh' = IF insert THEN nFh + 1 ELSE nFh
        /\ stack' = [stack EXCEPT ![w] =
                        Append(base, Frame("flow", "body", f, hid,
                                           IF hid # 0 THEN ctxFlow[w] ELSE NoTok,
                                           0, via, made, "ok"))]
        /\ ctxFlow' = IF hid # 0 THEN BindFlowId(w, hid) ELSE ctxFlow

\* a flow called directly: from idle code on a worker, or from inside a
\* flow or task body (nested flow)
DirectCall(w, f) ==
    /\ CanCall(w)
    /\ f \in Registry
    /\ FlowEnter(w, stack[w], f, 0, "", "direct")
    /\ UNCHANGED <<th, nTh, ctxTask, now, immJobs, orphanVars, trigVars,
                   adhocIds, lastRet, callVars, migVars, defVars, schedVars>>

FlowStatus(outcome) == IF outcome = "exc" THEN "failed" ELSE "completed"

\* a wrapper that turns every ending of its body into a normal return
WrapperOutcome_swallow(outcome) == "ret"

\* what the wrapper hands to its caller: `return result` gives the body's own
\* value, a bare `raise` gives the body's own exception (flow.py 153-157,
\* task.py 76-81)
WrapperOutcome(outcome) == outcome

NoCall == [kind |-> "none", row |-> 0, body |-> "none", seen |-> "none",
           val |-> NoTime]

\* a finished call: the row it worked on (0: none), how its body ended and
\* what its caller received
Called(kind, row, body, seen) ==
    [kind |-> kind, row |-> row, body |-> body, seen |-> seen, val |-> NoTime]

\* a finished set_progress: the task id that was bound, the value it was
\* given and what it returned
ProgressCalled(row, v, seen) ==
    [kind |-> "set_progress", row |-> row, body |-> "none", seen |-> seen,
     val |-> v]

FlowOutput(outcome) ==
    CASE outcome = "exc" -> "error"
      [] outcome = "ret" -> "result"
      [] outcome = "base_exc" -> "null_result"
      [] OTHER -> "unserializable"

\* flow.decorate.wrapper, lines 153-213: the body returns (outcome "ret", or
\* "ret_unser" when the result cannot be serialized) or raises ("exc": an
\* Exception, which `except Exception` records in error_msg; "base_exc": a
\* SystemExit, KeyboardInterrupt or other BaseException, which passes the
\* except clause with error_msg and result still None; followed here for
\* direct calls only); the
\* finally block resets the context variable and finalizes the row; the
\* result or the exception goes to the caller (execute_flow turns it into a
\* success flag for the job function, kept in the job's frame).
FlowExit(w, outcome) ==
    /\ stack[w] # <<>>
    /\ Top(w).kind = "flow"
    /\ outcome = "base_exc" => Top(w).via = "direct"
    /\ LET fr == Top(w)
           rest == SubSeq(stack[w], 1, Len(stack[w]) - 1)
           fh1 == IF fr.hid # 0 /\ storeUp
                  THEN update_flow_history(fh, fr.hid, now, FlowOutput(outcome),
                                           FlowStatus(outcome))
                  ELSE fh
           seen == WrapperOutcome(outcome)
           viaJob == rest # <<>> /\ rest[Len(rest)].kind \in {"imm", "trig"}
       IN  /\ fh' = fh1
           /\ ctxFlow' = ResetFlowId(w, fr.tok)
           /\ stack' = [stack EXCEPT ![w] =
                          IF viaJob
                          THEN [rest EXCEPT ![Len(rest)].pc = "after",
                                            ![Len(rest)].res =
                                               IF seen = "exc" THEN "fail" ELSE "ok",
                                            ![Len(rest)].made = fr.made]
                          ELSE rest]
           /\ lastRet' = IF viaJob THEN lastRet
                         ELSE Returned("direct", {fr.made} \ {0}, fh1)
           /\ lastCall' = Called("flow", fr.hid, outcome, seen)
    /\ UNCHANGED <<nFh, th, nTh, ctxTask, now, immJobs, orphanVars, trigVars,
                   adhocIds, storeUp, migVars, defVars, schedVars>>

\* ------------------------------------------------------------- task engine
\* task.decorate.wrapper, lines 30-69: read the ambient flow id; when one is
\* bound, commit a running TaskHistory row before the body starts (a store
\* error is caught and logged, and the task runs without a row); a flow body
\* calls at most MaxTh tasks
TaskEnter(w) ==
    /\ CanCall(w)
    /\ (stack[w] # <<>> /\ Top(w).kind = "flow") => Len(Top(w).log) < MaxTh
    /\ LET fhid == get_flow_history_id(w)
       IN  IF fhid # 0 /\ storeUp
           THEN /\ nTh < MaxTh
                /\ th' = create_task_history(fhid, now, "running")
                /\ nTh' = nTh + 1
                /\ stack' = Push(w, Frame("task", "body", <<>>, nTh + 1, NoTok, 0,
                                          "direct", 0, "ok"))
           ELSE /\ UNCHANGED <<th, nTh>>
                /\ stack' = Push(w, Frame("task", "body", <<>>, 0, NoTok, 0,
                                          "direct", 0, "ok"))
    /\ UNCHANGED <<fh, nFh, ctxFlow, ctxTask, now, immJobs, orphanVars,
                   trigVars, adhocIds, lastRet, callVars, migVars, defVars, schedVars>>

TaskStatus(outcome) ==
    CASE outcome = "exc" -> "failed"
      [] outcome \in {"ret", "base_exc"} -> "completed"
      [] OTHER -> "completed_with_serialization_error"

\* task.decorate.wrapper, lines 71-144: body ends, the row is finalized.
\* "ret_unprintable": a result that json.dumps rejects and whose str() raises
\* as well (an int of more than 4300 digits, an object with a failing
\* __str__): the substitute payload of lines 114-119 is built with
\* str(result) outside the inner try, so the exception reaches the outer
\* `except Exception` of line 138 and update_task_history is not called
TaskExit(w, outcome) ==
    /\ stack[w] # <<>>
    /\ Top(w).kind = "task"
    /\ th' = IF Top(w).hid # 0 /\ storeUp /\ outcome # "ret_unprintable"
             THEN update_task_history(th, Top(w).hid, now, FlowOutput(outcome),
                                      TaskStatus(outcome))
             ELSE th
    /\ stack' = LET rest == SubSeq(stack[w], 1, Len(stack[w]) - 1)
                 IN  IF rest # <<>> /\ rest[Len(rest)].kind = "flow"
                     THEN [stack EXCEPT ![w] =
                             [rest EXCEPT ![Len(rest)].log =
                                             Append(@, <<Top(w).prog, outcome>>)]]
                     ELSE Pop(w)
    /\ lastCall' = Called("task", Top(w).hid, outcome, WrapperOutcome(outcome))
    /\ UNCHANGED <<fh, nFh, nTh, ctxFlow, ctxTask, now, immJobs, orphanVars,
                   trigVars, adhocIds, lastRet, storeUp, migVars, defVars, schedVars>>

\* progress.set_task_history_id: binds the ambient task id of the calling
\* thread with a plain set (no token is kept, nothing resets it); called from
\* a task body with the id of the task's own row
SetTaskHistoryId(w, id) ==
    /\ InBody(w) /\ Top(w).kind = "task"
    /\ id = Top(w).hid /\ id \in 1..nTh
    /\ ctxTask[w] # id
    /\ ctxTask' = [ctxTask EXCEPT ![w] = id]
    /\ UNCHANGED <<histVars, stack, ctxFlow, now, immJobs, orphanVars,
                   trigVars, adhocIds, lastRet, callVars, migVars, defVars, schedVars>>

\* db.update_task_progress: the progress of an existing row
update_task_progress(tbl, t, v) ==
    IF t \in ThIds /\ tbl[t].status # "absent"
    THEN [tbl EXCEPT ![t].progress = v]
    ELSE tbl

\* a range check with no upper end
valid_progress_unbounded(v) == v >= 0

\* progress.py line 57: an integer in 0..100
valid_progress(v) == v \in 0..100

\* progress.set_progress called from a flow or task body: rejects a value
\* that is not an integer in 0..100, returns false when no task id is bound,
\* else writes the progress of the bound task's row (a store error is caught
\* and gives false)
set_progress(w, v) ==
    /\ InBody(w)
    /\ LET task_id == ctxTask[w]
           valid == valid_progress(v)
           ok == valid /\ task_id # 0 /\ storeUp
       IN  /\ th' = IF ok THEN update_task_progress(th, task_id, v) ELSE th
           /\ lastCall' = ProgressCalled(task_id, v,
                                         IF ok THEN "true" ELSE "false")
    /\ stack' = IF Top(w).kind = "task"
                THEN [stack EXCEPT ![w][Len(stack[w])].prog = v]
                ELSE stack
    /\ UNCHANGED <<fh, nFh, nTh, ctxFlow, ctxTask, now, immJobs, orphanVars,
                   trigVars, adhocIds, lastRet, storeUp, migVars, defVars, schedVars>>

\* values passed to set_progress: in range, the final 100, out of range
ProgressValues == {50, 100, 150}

Outcomes == {"ret", "ret_unser", "exc"}

\* with the exceptions that are not an Exception
BodyOutcomes == Outcomes \cup {"base_exc"}

\* ------------------------------------------------------- ad-hoc execution
IsPrefix(p, q) == Len(p) <= Len(q) /\ SubSeq(q, 1, Len(p)) = p

\* the default job id, f"immediate_{flow_id}_{timestamp}", up to the timestamp
ImmediateJobName(f) == <<"immediate">> \o f

\* SchedulerService.add_immediate_job: commit a pending row, then add a
\* one-shot job that carries the row id; returns the row id
AddImmediateJob(f, delay, args) ==
    /\ nFh < MaxFh
    /\ fh' = create_flow_history(f, now, NoTime, "pending", "")
    /\ nFh' = nFh + 1
    /\ immJobs' = immJobs \cup {[name |-> ImmediateJobName(f), flow |-> f,
                                 hid |-> nFh + 1, run_at |-> now + delay,
                                 args |-> args]}
    /\ adhocIds' = adhocIds \cup {nFh + 1}
    /\ UNCHANGED <<th, nTh, execVars, now, orphanVars, trigVars, lastRet, callVars, migVars, defVars, schedVars>>

\* job ids a caller passes to add_immediate_job: none (the default id is
\* made from the flow id and the time), or an id of its own
NoJobId == <<>>
JobIds == {NoJobId, <<"nightly">>}

\* SchedulerService.add_immediate_job with its job_id argument, lines
\* 530-589: the pending row is committed first; add_job with
\* replace_existing=False then raises when a job with that id is in the job
\* store, and the row stays without a job
AddImmediateJobNamed(f, delay, job_id) ==
    /\ nFh < MaxFh
    /\ fh' = create_flow_history(f, now, NoTime, "pending", "")
    /\ nFh' = nFh + 1
    /\ LET name == IF job_id = NoJobId THEN ImmediateJobName(f) ELSE job_id
           conflict == job_id # NoJobId /\ \E j \in immJobs : j.name = job_id
       IN  /\ immJobs' = IF conflict THEN immJobs
                         ELSE immJobs \cup {[name |-> name, flow |-> f,
                                             hid |-> nFh + 1,
                                             run_at |-> now + delay,
                                             args |-> "ok"]}
           /\ adhocIds' = IF conflict THEN adhocIds ELSE adhocIds \cup {nFh + 1}
    /\ UNCHANGED <<th, nTh, execVars, now, orphanVars, trigVars, lastRet,
                   callVars, migVars, defVars, schedVars>>

\* the scheduler hands a due one-shot job to an idle pool thread and drops it
\* from the job store
ImmFire(w) ==
    \E j \in immJobs :
        /\ j.run_at <= now
        /\ stack[w] = <<>>
        /\ immJobs' = immJobs \ {j}
        /\ stack' = Push(w, Frame("imm", "start", j.flow, j.hid, NoTok, 0, "adhoc",
                                  0, j.args))
        /\ UNCHANGED <<histVars, ctxFlow, ctxTask, now, orphanVars, trigVars,
                       adhocIds, lastRet, callVars, migVars, defVars, schedVars>>

\* a job function that leaves the row id out of the metadata
metadata_flow_history_id_dropped(hid) == 0

\* the flow_history_id entry of the metadata dict execute_immediate_flow
\* builds (lines 601-605), as the flow wrapper reads it back (flow.py 108)
metadata_flow_history_id(hid) == hid

\* execute_immediate_flow, lines 600-616, calling execute_flow: an unknown
\* flow id gives a not-found result; an input that does not bind to the
\* signature raises in the wrapper before any row is touched and execute_flow
\* returns a failure result; otherwise the wrapper starts with the row id in
\* its metadata
ImmCall(w) ==
    /\ stack[w] # <<>>
    /\ Top(w).kind = "imm"
    /\ Top(w).pc = "start"
    /\ LET fr == Top(w)
       IN  IF ~ get_flow_func(fr.flow) \/ fr.args = "bad"
           THEN /\ stack' = [stack EXCEPT ![w][Len(stack[w])].pc = "after",
                                          ![w][Len(stack[w])].res =
                                             IF get_flow_func(fr.flow)
                                             THEN "fail" ELSE "not_found"]
                /\ UNCHANGED <<fh, nFh, ctxFlow>>
           ELSE FlowEnter(w, [stack[w] EXCEPT ![Len(stack[w])].pc = "in_flow"],
                          fr.flow, metadata_flow_history_id(fr.hid), "immediate",
                          "adhoc")
    /\ UNCHANGED <<th, nTh, ctxTask, now, immJobs, orphanVars, trigVars,
                   adhocIds, lastRet, callVars, migVars, defVars, schedVars>>

\* SchedulerService.update_flow_history_status for a terminal status
update_flow_history_status(tbl, h, st, err) ==
    IF h \in FhIds /\ tbl[h].status # "absent"
    THEN [tbl EXCEPT ![h].status = st, ![h].end_time = now,
                     ![h].output_data = IF err THEN "status_error" ELSE @]
    ELSE tbl

\* execute_immediate_flow, lines 619-633: after a successful execute_flow the
\* row is set completed again and its output replaced by the result dict (a
\* store error is caught and logged)
ImmAfter(w) ==
    /\ stack[w] # <<>>
    /\ Top(w).kind = "imm"
    /\ Top(w).pc = "after"
    /\ LET fr == Top(w)
           fh1 == IF fr.hid # 0 /\ fr.res = "ok" /\ storeUp
                  THEN LET t1 == update_flow_history_status(fh, fr.hid,
                                                            "completed", FALSE)
                       IN IF t1[fr.hid].status # "absent"
                          THEN [t1 EXCEPT ![fr.hid].output_data = "exec_result"]
                          ELSE t1
                  ELSE fh
       IN  /\ fh' = fh1
           /\ lastRet' = IF fr.flow \in Registry
                         THEN Returned("adhoc", {fr.hid, fr.made} \ {0}, fh1)
                         ELSE lastRet
    /\ stack' = Pop(w)
    /\ UNCHANGED <<nFh, th, nTh, ctxFlow, ctxTask, now, immJobs, orphanVars,
                   trigVars, adhocIds, callVars, migVars, defVars, schedVars>>

\* --------------------------------------------------------- orphan detection
\* check_orphaned_jobs, lines 761-775: the row counts as lost unless some
\* live job's id starts with "immediate_<flow_id>_" and runs in the future
TaskLost(h) ==
    ~ \E j \in immJobs : /\ IsPrefix(ImmediateJobName(fh[h].flow_id), j.name)
                         /\ j.run_at > now

\* check_orphaned_jobs, lines 748-797: pending rows older than the timeout
OrphanPending ==
    /\ orphanPc = "idle"
    /\ LET lost == {h \in FhIds : /\ fh[h].status = "pending"
                                  /\ fh[h].created_at < now - PendingTimeout
                                  /\ TaskLost(h)}
       IN  /\ fh' = [h \in FhIds |->
                        IF h \in lost
                        THEN [fh[h] EXCEPT !.status = "failed", !.end_time = now,
                                           !.output_data = "lost_pending"]
                        ELSE fh[h]]
           /\ th' = [t \in ThIds |->
                        IF th[t].status = "running" /\ th[t].flow_history_id \in lost
                        THEN [th[t] EXCEPT !.status = "failed", !.end_time = now]
                        ELSE th[t]]
    /\ orphanNow' = now
    /\ orphanPc' = "pending_done"
    /\ UNCHANGED <<nFh, nTh, execVars, now, immJobs, trigVars, adhocIds, lastRet, callVars, migVars, defVars, schedVars>>

\* the children of a row in any status
RunningChildren_any(h) == {t \in ThIds : th[t].flow_history_id = h}

\* check_orphaned_jobs, lines 810-813: the running TaskHistory rows of a row
RunningChildren(h) ==
    {t \in ThIds : th[t].flow_history_id = h /\ th[t].status = "running"}

\* check_orphaned_jobs, lines 799-829: running rows older than the timeout
\* with no running TaskHistory child
OrphanRunning ==
    /\ orphanPc = "pending_done"
    /\ fh' = [h \in FhIds |->
                 IF /\ fh[h].status = "running"
                    /\ fh[h].start_time < orphanNow - RunningTimeout
                    /\ RunningChildren(h) = {}
                 THEN [fh[h] EXCEPT !.status = "failed", !.end_time = orphanNow,
                                    !.output_data = "lost_running"]
                 ELSE fh[h]]
    /\ orphanPc' = "running_done"
    /\ UNCHANGED <<nFh, th, nTh, execVars, now, immJobs, orphanNow, trigVars,
                   adhocIds, lastRet, callVars, migVars, defVars, schedVars>>

\* check_orphaned_jobs, lines 831-860: running task rows older than the
\* running timeout whose flow row is terminal take the flow's status
OrphanTasks ==
    /\ orphanPc = "running_done"
    /\ th' = [t \in ThIds |->
                 IF /\ th[t].status = "running"
                    /\ th[t].start_time < orphanNow - RunningTimeout
                    /\ FhExists(th[t].flow_history_id)
                    /\ fh[th[t].flow_history_id].status \in Terminal
                 THEN [th[t] EXCEPT !.status = fh[th[t].flow_history_id].status,
                                    !.end_time = fh[th[t].flow_history_id].end_time]
                 ELSE th[t]]
    /\ orphanPc' = "idle"
    /\ UNCHANGED <<fh, nFh, nTh, execVars, now, immJobs, orphanNow, trigVars,
                   adhocIds, lastRet, callVars, migVars, defVars, schedVars>>

\* ---------------------------------------------------------------- the clock
Tick ==
    /\ now < MaxTime
    /\ now' = now + 1
    /\ UNCHANGED <<histVars, execVars, immJobs, orphanVars, trigVars, adhocIds,
                   lastRet, callVars, migVars, defVars, schedVars>>

\* ------------------------------------------------------ triggers, cron jobs
\* a cron expression is the sequence of its five fields:
\* minute hour day month day_of_week
Crons == {<<"*", "*", "*", "*", "*">>, <<"0", "*", "*", "*", "*">>,
          <<"*", "*", "05", "*", "*">>}
Caps == 1..MaxCap
Args == {"ok", "bad"}

AbsentTrigger == [exists |-> FALSE, flow_id |-> <<>>, cron_expression |-> <<>>,
                  max_instances |-> 0, enabled |-> FALSE, params |-> "ok"]

NoJob == [exists |-> FALSE, fields |-> <<>>, max_instances |-> 0,
          paused |-> FALSE]

\* CronTrigger.from_crontab: the trigger's fields, in the order the trigger
\* keeps them (year, month, day, week, day_of_week, hour, minute, second);
\* fields the crontab does not give default to "*", the second to "0"
from_crontab(e) == <<"*", e[4], e[3], "*", e[5], e[2], e[1], "0">>

\* str(field): the field printed from its parsed value ("05" prints as "5")
FieldStr(f) == IF f = "05" THEN "5" ELSE f

\* sync_triggers_from_db, lines 450-457: ' '.join of the first five fields
reconstructed_cron(fields) == [i \in 1..5 |-> FieldStr(fields[i])]

\* SchedulerService.add_job: add or replace the cron job of a trigger
add_job(js, t, cron, cap) ==
    [js EXCEPT ![t] = [exists |-> TRUE, fields |-> from_crontab(cron),
                       max_instances |-> cap, paused |-> FALSE]]

\* SchedulerService.remove_job / pause_job / resume_job: no-ops without a job
remove_job(js, t) == [js EXCEPT ![t] = NoJob]
pause_job(js, t) == IF js[t].exists THEN [js EXCEPT ![t].paused = TRUE] ELSE js
resume_job(js, t) == IF js[t].exists THEN [js EXCEPT ![t].paused = FALSE] ELSE js

NoSync == [added |-> 0, updated |-> 0, removed |-> 0, paused |-> 0, resumed |-> 0]

\* TriggerService.create_trigger
CreateTrigger(f, cron, cap, params) ==
    /\ nTrig < MaxTriggers
    /\ LET t == nTrig + 1
       IN  /\ trig' = [trig EXCEPT ![t] = [exists |-> TRUE, flow_id |-> f,
                                           cron_expression |-> cron,
                                           max_instances |-> cap, enabled |-> TRUE,
                                           params |-> params]]
           /\ jobs' = add_job(jobs, t, cron, cap)
    /\ nTrig' = nTrig + 1
    /\ syncCount' = 0
    /\ UNCHANGED <<histVars, execVars, now, immJobs, orphanVars, instances,
                   syncResult, adhocIds, lastRet, callVars, migVars, defVars, schedVars>>

\* TriggerService.update_trigger: the job is replaced only when the trigger
\* is enabled
UpdateTrigger(t, cron, cap) ==
    /\ trig[t].exists
    /\ <<cron, cap>> # <<trig[t].cron_expression, trig[t].max_instances>>
    /\ trig' = [trig EXCEPT ![t].cron_expression = cron, ![t].max_instances = cap]
    /\ jobs' = IF trig[t].enabled THEN add_job(jobs, t, cron, cap) ELSE jobs
    /\ syncCount' = 0
    /\ UNCHANGED <<histVars, execVars, now, immJobs, orphanVars, nTrig, instances,
                   syncResult, adhocIds, lastRet, callVars, migVars, defVars, schedVars>>

\* TriggerService.toggle_trigger_status
ToggleTrigger(t, en) ==
    /\ trig[t].exists
    /\ trig' = [trig EXCEPT ![t].enabled = en]
    /\ jobs' = IF en THEN resume_job(jobs, t) ELSE pause_job(jobs, t)
    /\ syncCount' = 0
    /\ UNCHANGED <<histVars, execVars, now, immJobs, orphanVars, nTrig, instances,
                   syncResult, adhocIds, lastRet, callVars, migVars, defVars, schedVars>>

\* TriggerService.delete_trigger
DeleteTrigger(t) ==
    /\ trig[t].exists
    /\ jobs' = remove_job(jobs, t)
    /\ trig' = [trig EXCEPT ![t] = AbsentTrigger]
    /\ syncCount' = 0
    /\ UNCHANGED <<histVars, execVars, now, immJobs, orphanVars, nTrig, instances,
                   syncResult, adhocIds, lastRet, callVars, migVars, defVars, schedVars>>

\* sync_triggers_from_db, lines 443-464: does the live job differ?
need_update(t) ==
    \/ reconstructed_cron(jobs[t].fields) # trig[t].cron_expression
    \/ jobs[t].max_instances # trig[t].max_instances

\* sync_triggers_from_db, lines 419-498: what the pass does for one trigger
\* row: "add", "update", "resume", "pause" or "none"
SyncAction(t) ==
    IF trig[t].enabled
    THEN IF ~ jobs[t].exists THEN "add"
         ELSE IF need_update(t) THEN "update"
         ELSE IF jobs[t].paused THEN "resume"
         ELSE "none"
    ELSE IF jobs[t].exists THEN "pause" ELSE "none"

SyncJob(t) ==
    IF trig[t].exists
    THEN CASE SyncAction(t) \in {"add", "update"} ->
                  [exists |-> TRUE, fields |-> from_crontab(trig[t].cron_expression),
                   max_instances |-> trig[t].max_instances, paused |-> FALSE]
           [] SyncAction(t) = "resume" -> [jobs[t] EXCEPT !.paused = FALSE]
           [] SyncAction(t) = "pause" -> [jobs[t] EXCEPT !.paused = TRUE]
           [] OTHER -> jobs[t]
    ELSE NoJob

CountAction(a) == Cardinality({t \in TriggerIds : trig[t].exists /\ SyncAction(t) = a})

\* SchedulerService.sync_triggers_from_db: one reconciliation pass
SyncTriggers ==
    /\ jobs' = [t \in TriggerIds |-> SyncJob(t)]
    /\ syncResult' = [added |-> CountAction("add"),
                      updated |-> CountAction("update"),
                      removed |-> Cardinality({t \in TriggerIds :
                                     jobs[t].exists /\ ~ trig[t].exists}),
                      paused |-> CountAction("pause"),
                      resumed |-> CountAction("resume")]
    /\ syncCount' = IF syncCount < 2 THEN syncCount + 1 ELSE 2
    /\ UNCHANGED <<histVars, execVars, now, immJobs, orphanVars, trig, nTrig,
                   instances, adhocIds, lastRet, callVars, migVars, defVars, schedVars>>

\* a pass that has read nothing
NoSnap == [active |-> FALSE, rows |-> [t \in TriggerIds |-> AbsentTrigger],
           job_ids |-> {}]

\* sync_triggers_from_db, lines 403-416: the pass reads all Trigger rows and
\* the ids of the live trigger jobs
SyncRead ==
    /\ ~ syncSnap.active
    /\ syncSnap' = [active |-> TRUE, rows |-> trig,
                    job_ids |-> {t \in TriggerIds : jobs[t].exists}]
    /\ UNCHANGED <<histVars, execVars, now, immJobs, orphanVars, trigVars,
                   adhocIds, lastRet, callVars, migVars, defVars, engine>>

\* lines 443-464 for a row read earlier and the job as it is now
need_update_row(row, job) ==
    \/ reconstructed_cron(job.fields) # row.cron_expression
    \/ job.max_instances # row.max_instances

\* lines 419-498 for a row read earlier and the job as it is now
SyncActionRow(row, job) ==
    IF row.enabled
    THEN IF ~ job.exists THEN "add"
         ELSE IF need_update_row(row, job) THEN "update"
         ELSE IF job.paused THEN "resume"
         ELSE "none"
    ELSE IF job.exists THEN "pause" ELSE "none"

\* the job of trigger id t after the loops of lines 419-508: rows that were
\* read are handled with the job found now; jobs whose id was read and whose
\* row was not are removed
SyncJobRow(t) ==
    LET row == syncSnap.rows[t]
        a == SyncActionRow(row, jobs[t])
    IN  IF row.exists
        THEN CASE a \in {"add", "update"} ->
                      [exists |-> TRUE, fields |-> from_crontab(row.cron_expression),
                       max_instances |-> row.max_instances, paused |-> FALSE]
               [] a = "resume" -> [jobs[t] EXCEPT !.paused = FALSE]
               [] a = "pause" -> [jobs[t] EXCEPT !.paused = TRUE]
               [] OTHER -> jobs[t]
        ELSE IF t \in syncSnap.job_ids THEN NoJob ELSE jobs[t]

\* sync_triggers_from_db, lines 419-508: the rest of the pass, working from
\* what it read
SyncApply ==
    /\ syncSnap.active
    /\ jobs' = [t \in TriggerIds |-> SyncJobRow(t)]
    /\ syncSnap' = NoSnap
    /\ syncCount' = IF syncCount < 2 THEN syncCount + 1 ELSE 2
    /\ UNCHANGED <<histVars, execVars, now, immJobs, orphanVars, trig, nTrig,
                   instances, syncResult, adhocIds, lastRet, callVars, migVars,
                   defVars, engine>>

\* the scheduler fires a trigger's cron job: the executor admits the run only
\* while fewer than the job's max_instances instances of it are running
\* (otherwise the firing is skipped), and runs execute_trigger on a pool thread
TrigFire(w, t) ==
    /\ jobs[t].exists
    /\ ~ jobs[t].paused
    /\ instances[t] < jobs[t].max_instances
    /\ stack[w] = <<>>
    /\ instances' = [instances EXCEPT ![t] = @ + 1]
    /\ stack' = Push(w, Frame("trig", "start", <<>>, 0, NoTok, t, "cron", 0, "ok"))
    /\ UNCHANGED <<histVars, ctxFlow, ctxTask, now, immJobs, orphanVars, trig,
                   nTrig, jobs, syncResult, syncCount, adhocIds, lastRet, callVars, migVars, defVars, schedVars>>

\* a check that lets every firing through
trigger_runnable_any(t) == TRUE

\* execute_trigger, lines 703-709: the row is read, and the firing goes on
\* only for a row that exists and is enabled
trigger_runnable(t) == trig[t].exists /\ trig[t].enabled

\* SchedulerService.execute_trigger calling execute_flow: nothing runs for a
\* missing or disabled trigger row
TrigCall(w) ==
    /\ stack[w] # <<>>
    /\ Top(w).kind = "trig"
    /\ Top(w).pc = "start"
    /\ LET t == Top(w).t
           n == Len(stack[w])
       IN  IF ~ trigger_runnable(t)
           THEN /\ stack' = [stack EXCEPT ![w][n].pc = "after"]
                /\ UNCHANGED <<fh, nFh, ctxFlow>>
           ELSE IF ~ get_flow_func(trig[t].flow_id) \/ trig[t].params = "bad"
           THEN /\ stack' = [stack EXCEPT ![w][n].pc = "after",
                                          ![w][n].res =
                                             IF get_flow_func(trig[t].flow_id)
                                             THEN "fail" ELSE "not_found",
                                          ![w][n].flow = trig[t].flow_id]
                /\ UNCHANGED <<fh, nFh, ctxFlow>>
           ELSE FlowEnter(w, [stack[w] EXCEPT ![n].pc = "in_flow",
                                              ![n].flow = trig[t].flow_id],
                          trig[t].flow_id, 0, "scheduled", "cron")
    /\ UNCHANGED <<th, nTh, ctxTask, now, immJobs, orphanVars, trigVars,
                   adhocIds, lastRet, callVars, migVars, defVars, schedVars>>

\* execute_trigger returns; the executor counts the instance as finished
TrigDone(w) ==
    /\ stack[w] # <<>>
    /\ Top(w).kind = "trig"
    /\ Top(w).pc = "after"
    /\ instances' = [instances EXCEPT ![Top(w).t] = @ - 1]
    /\ lastRet' = IF Top(w).res # "none" /\ Top(w).flow \in Registry
                  THEN Returned("cron", {Top(w).made} \ {0}, fh)
                  ELSE lastRet
    /\ stack' = Pop(w)
    /\ UNCHANGED <<histVars, ctxFlow, ctxTask, now, immJobs, orphanVars, trig,
                   nTrig, jobs, syncResult, syncCount, adhocIds, callVars, migVars, defVars, schedVars>>

\* SchedulerService.load_triggers_from_db: the jobs of the enabled triggers
load_triggers_from_db ==
    [t \in TriggerIds |->
        IF trig[t].exists /\ trig[t].enabled
        THEN [exists |-> TRUE, fields |-> from_crontab(trig[t].cron_expression),
              max_instances |-> trig[t].max_instances, paused |-> FALSE]
        ELSE NoJob]

\* the process dies and is started again: threads and their context, the
\* in-memory one-shot jobs and the running passes are gone; start_scheduler
\* reloads the cron jobs of the enabled triggers; the stores survive
Restart ==
    /\ \/ \E w \in Workers : stack[w] # <<>>
       \/ immJobs # {}
    /\ stack' = [w \in Workers |-> <<>>]
    /\ ctxFlow' = [w \in Workers |-> 0]
    /\ ctxTask' = [w \in Workers |-> 0]
    /\ immJobs' = {}
    /\ orphanPc' = "idle"
    /\ jobs' = load_triggers_from_db
    /\ instances' = [t \in TriggerIds |-> 0]
    /\ syncCount' = 0
    /\ UNCHANGED <<histVars, now, orphanNow, trig, nTrig, syncResult, adhocIds,
                   lastRet, callVars, migVars, defVars, schedVars>>

\* the process is stopped and started again while nothing runs: the live jobs
\* are held in memory only, and start_scheduler (lines 54-60) reloads them
\* with load_triggers_from_db
RestartIdle ==
    /\ \A w \in Workers : stack[w] = <<>>
    /\ immJobs = {}
    /\ jobs' = load_triggers_from_db
    /\ instances' = [t \in TriggerIds |-> 0]
    /\ syncCount' = 0
    /\ UNCHANGED <<histVars, execVars, now, immJobs, orphanVars, trig, nTrig,
                   syncResult, adhocIds, lastRet, callVars, migVars, defVars, schedVars>>

\* the rows a Trigger table entry can hold
TriggerRows ==
    [exists : {TRUE}, flow_id : FlowIds, cron_expression : Crons,
     max_instances : Caps, enabled : BOOLEAN, params : Args]

\* another process that shares the store (its own TriggerService and its own
\* scheduler) creates, changes or deletes a trigger row; the jobs of this
\* process's scheduler are not touched, which is what the reconciliation
\* pass is there to repair (lines 382-386)
ForeignWrite(t, row) ==
    /\ t \in 1..nTrig \/ (t = nTrig + 1 /\ row # AbsentTrigger)
    /\ t > nTrig \/ trig[t].exists
    /\ trig[t] # row
    /\ trig' = [trig EXCEPT ![t] = row]
    /\ nTrig' = IF t > nTrig THEN t ELSE nTrig
    /\ syncCount' = 0
    /\ UNCHANGED <<histVars, execVars, now, immJobs, orphanVars, jobs, instances,
                   syncResult, adhocIds, lastRet, callVars, migVars, defVars, schedVars>>

\* ------------------------------------------------------- flow definition
\* ids a flow can be defined under: the ids already in the Flow table and one
\* that is not
DefIds == FlowIds \cup {<<"g">>}
\* the name and desc arguments of flow(...): <<>> stands for None
Names == {<<>>, <<"A">>, <<"B">>}
Descs == {<<>>, <<"d1">>, <<"d2">>}
Funcs == 1..MaxFuncs

NoDefine == [id |-> <<>>, name |-> <<>>, desc |-> <<>>, func |-> 0]

\* db.register_flow, lines 230-247: the row with this id gets the name and,
\* when one is given, the description; without such a row one is inserted
register_flow(tbl, f, name, desc) ==
    IF \E r \in tbl : r.id = f
    THEN LET flow == CHOOSE r \in tbl : r.id = f
         IN  (tbl \ {flow}) \cup
                 {[flow EXCEPT !.name = name,
                               !.description = IF desc # <<>> THEN desc ELSE @]}
    ELSE tbl \cup {[id |-> f, name |-> name, description |-> desc]}

\* flow(flow_id, name, desc) applied to a function, flow.py lines 73-80 and
\* 215: the Flow row is upserted with name or flow_id, and the wrapper of the
\* function takes the id's place in the registry
DefineFlow(f, name, desc, func) ==
    /\ flowTable' = register_flow(flowTable, f, IF name # <<>> THEN name ELSE f, desc)
    /\ flowRegistry' = [flowRegistry EXCEPT ![f] = func]
    /\ lastDefine' = [id |-> f, name |-> name, desc |-> desc, func |-> func]
    /\ UNCHANGED <<histVars, execVars, now, immJobs, orphanVars, trigVars,
                   adhocIds, lastRet, callVars, migVars, schedVars>>

\* ------------------------------------------------------- retention cleanup
RetentionDays == 0..MaxRetention

\* a selection that also takes the rows created at the cutoff itself
expired_flows_inclusive(cutoff) ==
    {h \in FhIds : FhExists(h) /\ fh[h].created_at <= cutoff}

\* cleanup_history_data, lines 156-158: FlowHistory.created_at < cutoff_date
expired_flows(cutoff) ==
    {h \in FhIds : FhExists(h) /\ fh[h].created_at < cutoff}

\* SchedulerService.cleanup_history_data, lines 141-179: one transaction that
\* deletes the TaskHistory rows of the expired flows, then the flows
cleanup_history_data(retention_days) ==
    LET cutoff_date == now - retention_days
        flow_history_ids == expired_flows(cutoff_date)
    IN  /\ th' = [t \in ThIds |->
                     IF th[t].flow_history_id \in flow_history_ids
                     THEN AbsentTh ELSE th[t]]
        /\ fh' = [h \in FhIds |->
                     IF h \in flow_history_ids THEN AbsentFh ELSE fh[h]]
        /\ UNCHANGED <<nFh, nTh, execVars, now, immJobs, orphanVars, trigVars,
                       adhocIds, lastRet, callVars, migVars, defVars, schedVars>>

\* FlowService.batch_delete_flow_history, lines 362-395: for each id whose
\* FlowHistory row exists, the task rows that reference it and the row itself
\* are deleted; one commit. delete_flow_history, lines 334-359, is the same
\* for one id
batch_delete_flow_history(history_ids) ==
    /\ \E h \in history_ids : FhExists(h)
    /\ LET found == {h \in history_ids : FhExists(h)}
       IN  /\ th' = [t \in ThIds |->
                        IF th[t].flow_history_id \in found
                        THEN AbsentTh ELSE th[t]]
           /\ fh' = [h \in FhIds |-> IF h \in found THEN AbsentFh ELSE fh[h]]
    /\ UNCHANGED <<nFh, nTh, execVars, now, immJobs, orphanVars, trigVars,
                   adhocIds, lastRet, callVars, migVars, defVars, schedVars>>

delete_flow_history(history_id) ==
    /\ FhExists(history_id)
    /\ batch_delete_flow_history({history_id})

\* ------------------------------------------------- scheduler start and stop
\* ids of the maintenance jobs start_scheduler registers (history_cleanup
\* with enable_history_cleanup set)
MaintenanceJobs == {"orphaned_job_checker", "trigger_syncer", "history_cleanup"}

\* created: BackgroundScheduler instances constructed in this process;
\* started: _scheduler_started; maint: maintenance jobs in the job store;
\* loads: calls of load_triggers_from_db made by start_scheduler
NoEngine == [created |-> 0, started |-> FALSE, maint |-> {}, loads |-> 0]

\* the web application after its startup hook has called start_scheduler
StartedEngine == [created |-> 1, started |-> TRUE, maint |-> MaintenanceJobs,
                  loads |-> 0]

\* a started flag that is never seen set
scheduler_started_never(e) == FALSE

\* reads of cls._scheduler_started, lines 56 and 263
scheduler_started(e) == e.started

\* SchedulerService.init_scheduler, lines 30-51: one BackgroundScheduler is
\* constructed when there is none
init_scheduler(e) == IF e.created = 0 THEN [e EXCEPT !.created = 1] ELSE e

\* the engine after the body of start_scheduler, lines 57-69
started_engine(e) ==
    [init_scheduler(e) EXCEPT !.started = TRUE, !.maint = MaintenanceJobs,
                              !.loads = @ + 1]

\* SchedulerService.start_scheduler, lines 54-69: when not started, the
\* engine is initialised, the trigger jobs are cleared and reloaded from the
\* store, the engine is started and the maintenance jobs are registered;
\* when started, nothing happens
StartScheduler ==
    /\ ~ scheduler_started(engine) => engine.loads < MaxStarts
    /\ IF ~ scheduler_started(engine)
       THEN /\ engine' = started_engine(engine)
            /\ jobs' = load_triggers_from_db
       ELSE UNCHANGED <<engine, jobs>>
    /\ UNCHANGED <<histVars, execVars, now, immJobs, orphanVars, trig, nTrig,
                   instances, syncResult, syncCount, adhocIds, lastRet,
                   callVars, migVars, defVars, syncSnap>>

\* SchedulerService.shutdown_scheduler, lines 260-266: a started engine is
\* shut down and the flag cleared; _scheduler keeps the instance
ShutdownScheduler ==
    /\ engine' = IF engine.created > 0 /\ scheduler_started(engine)
                 THEN [engine EXCEPT !.started = FALSE]
                 ELSE engine
    /\ UNCHANGED <<histVars, execVars, now, immJobs, orphanVars, trigVars,
                   adhocIds, lastRet, callVars, migVars, defVars, syncSnap>>

\* a process that has imported SchedulerService and not started it (a
\* script, a worker): no engine, no jobs
NewProcess ==
    /\ engine # NoEngine
    /\ \A w \in Workers : stack[w] = <<>>
    /\ engine' = NoEngine
    /\ jobs' = [t \in TriggerIds |-> NoJob]
    /\ instances' = [t \in TriggerIds |-> 0]
    /\ immJobs' = {}
    /\ syncCount' = 0
    /\ UNCHANGED <<histVars, execVars, now, orphanVars, trig, nTrig,
                   syncResult, adhocIds, lastRet, callVars, migVars, defVars, syncSnap>>

\* SchedulerService.add_immediate_job, lines 544-589: with no engine yet the
\* engine is initialised and, when not started, started; then the pending
\* row is committed and the one-shot job added
AddImmediateJobCall(f, delay) ==
    /\ nFh < MaxFh
    /\ IF engine.created = 0
       THEN IF ~ scheduler_started(init_scheduler(engine))
            THEN /\ engine' = started_engine(engine)
                 /\ jobs' = load_triggers_from_db
            ELSE /\ engine' = init_scheduler(engine)
                 /\ jobs' = jobs
       ELSE UNCHANGED <<engine, jobs>>
    /\ fh' = create_flow_history(f, now, NoTime, "pending", "")
    /\ nFh' = nFh + 1
    /\ immJobs' = immJobs \cup {[name |-> ImmediateJobName(f), flow |-> f,
                                 hid |-> nFh + 1, run_at |-> now + delay,
                                 args |-> "ok"]}
    /\ adhocIds' = adhocIds \cup {nFh + 1}
    /\ UNCHANGED <<th, nTh, execVars, now, orphanVars, trig, nTrig, instances,
                   syncResult, syncCount, lastRet, callVars, migVars, defVars, syncSnap>>

\* ------------------------------------------------------ migration manager
MaxMig == 3
Versions == 1..MaxMig

\* the history database file: the migrations whose upgrade has changed it in
\* full (schema) or in part (partial: an upgrade that raised after some of its
\* statements had taken effect), whether the _schema_migrations table exists
\* (table), and the versions recorded in it (ledger)
LegacyDb == [schema |-> {}, partial |-> {}, table |-> FALSE, ledger |-> {}]

\* backup_database's return value: None, or the path of a copy of the file
NoBackup == [exists |-> FALSE, copy |-> LegacyDb]

\* run_migrations' frame: pending list, number of loop iterations done, the
\* backup, success_count, failed_count, errors (the version each message
\* names); observations: the file when the loop started (pre), the versions
\* whose upgrade was called (upgraded), what became of the restore
\* ("none": no failure, "ok", "failed", "skipped": no backup to restore from)
NoRun == [pc |-> "idle", pending |-> <<>>, idx |-> 0, backup |-> NoBackup,
          success_count |-> 0, failed_count |-> 0, errors |-> <<>>,
          pre |-> LegacyDb, upgraded |-> <<>>, restore |-> "none"]

RECURSIVE Ascending(_)
\* sorted(): the elements of a set of versions in ascending order
Ascending(S) ==
    IF S = {} THEN <<>>
    ELSE LET m == CHOOSE x \in S : \A y \in S : x <= y
         IN  <<m>> \o Ascending(S \ {m})

\* MigrationManager.get_current_version, lines 44-62: the highest recorded
\* version, None (0) when the table is missing or empty
get_current_version(d) ==
    IF ~ d.table \/ d.ledger = {} THEN 0
    ELSE CHOOSE x \in d.ledger : \A y \in d.ledger : y <= x

\* MigrationManager.get_migration_files, lines 64-93: the versions of the
\* files in the migration_files directory of the installed release
get_migration_files == (1..migFiles) \ migHeld

\* a pending list that ignores the ledger
get_pending_migrations_all(d) == Ascending(get_migration_files)

\* MigrationManager.get_pending_migrations, lines 95-105
get_pending_migrations(d) ==
    Ascending({v \in get_migration_files :
                  get_current_version(d) = 0 \/ v > get_current_version(d)})

\* MigrationManager.create_migrations_table, lines 107-122
create_migrations_table(d) == [d EXCEPT !.table = TRUE]

\* MigrationManager.backup_database, lines 124-140: a copy of the file, or
\* None when the copy fails
backup_database(d, copied) ==
    IF copied THEN [exists |-> TRUE, copy |-> d] ELSE NoBackup

\* MigrationManager.restore_database, lines 142-153: the backup copied over
\* the file, or the file left as it is when the copy fails
restore_database(d, b, copied) == IF copied THEN b.copy ELSE d

\* a record step that inserts nothing
record_migration_noop(d, v) == d

\* MigrationManager.record_migration, lines 155-171
record_migration(d, v) == [d EXCEPT !.ledger = @ \cup {v}]

\* how one run_migration call can go: upgrade and record succeed; upgrade
\* raises before or after changing the file; upgrade succeeds and the insert
\* into the ledger raises
MigrationOutcomes == {"ok", "upgrade_raises", "upgrade_raises_partial",
                      "record_raises"}

\* a new release is installed: one more migration file, with a version
\* after all earlier ones
AddMigrationFile ==
    /\ migRun.pc # "loop"
    /\ migFiles < MaxMig
    /\ migFiles' = migFiles + 1
    /\ UNCHANGED <<histVars, execVars, now, immJobs, orphanVars, trigVars,
                   adhocIds, lastRet, callVars, migHeld, histDb, migRun,
                   histFile, defVars, schedVars>>

\* a migration is written on a development branch: it takes the next
\* version (a timestamp) and is not part of the installed release yet
BranchMigrationFile ==
    /\ migRun.pc # "loop"
    /\ migFiles < MaxMig
    /\ migFiles' = migFiles + 1
    /\ migHeld' = migHeld \cup {migFiles + 1}
    /\ UNCHANGED <<histVars, execVars, now, immJobs, orphanVars, trigVars,
                   adhocIds, lastRet, callVars, histDb, migRun, histFile,
                   defVars, schedVars>>

\* the branch is merged and released: its migration file appears in the
\* migration_files directory, with a version that may be lower than
\* versions already applied
MergeMigrationFile(v) ==
    /\ migRun.pc # "loop"
    /\ v \in migHeld
    /\ migHeld' = migHeld \ {v}
    /\ UNCHANGED <<histVars, execVars, now, immJobs, orphanVars, trigVars,
                   adhocIds, lastRet, callVars, migFiles, histDb, migRun,
                   histFile, defVars, schedVars>>

\* run_migrations, lines 202-220: nothing pending returns (0, 0, []) at
\* once; otherwise the ledger table is created if missing and the file is
\* backed up
RunMigrationsStart(copied) ==
    /\ migRun.pc # "loop"
    /\ LET pending == get_pending_migrations(histDb)
           d == create_migrations_table(histDb)
       IN  IF pending = <<>>
           THEN /\ migRun' = [NoRun EXCEPT !.pc = "returned", !.pre = histDb]
                /\ histDb' = histDb
           ELSE /\ histDb' = d
                /\ migRun' = [NoRun EXCEPT !.pc = "loop", !.pending = pending,
                                           !.backup = backup_database(d, copied),
                                           !.pre = d]
    /\ UNCHANGED <<histVars, execVars, now, immJobs, orphanVars, trigVars,
                   adhocIds, lastRet, callVars, migFiles, migHeld, histFile, defVars, schedVars>>

\* MigrationManager.run_migration, lines 173-194, on the file
run_migration(d, v, outcome) ==
    CASE outcome = "ok" ->
             record_migration([d EXCEPT !.schema = @ \cup {v},
                                        !.partial = @ \ {v}], v)
      [] outcome = "record_raises" ->
             [d EXCEPT !.schema = @ \cup {v}, !.partial = @ \ {v}]
      [] outcome = "upgrade_raises_partial" ->
             [d EXCEPT !.partial = @ \cup ({v} \ d.schema)]
      [] OTHER -> d

\* one iteration of the loop of run_migrations, lines 222-245: the next
\* pending migration is run; on failure the backup, if there is one, is
\* copied back and the loop ends; after the last iteration the function
\* returns
RunMigration(outcome, copied) ==
    /\ migRun.pc = "loop"
    /\ LET v == migRun.pending[migRun.idx + 1]
           d == run_migration(histDb, v, outcome)
           r == [migRun EXCEPT !.idx = @ + 1, !.upgraded = Append(@, v)]
       IN  IF outcome = "ok"
           THEN /\ histDb' = d
                /\ migRun' = [r EXCEPT !.success_count = @ + 1,
                                       !.pc = IF r.idx = Len(r.pending)
                                              THEN "returned" ELSE "loop"]
           ELSE /\ histDb' = IF migRun.backup.exists
                             THEN restore_database(d, migRun.backup, copied)
                             ELSE d
                /\ migRun' = [r EXCEPT !.failed_count = @ + 1,
                                       !.errors = Append(@, v),
                                       !.restore =
                                          IF ~ migRun.backup.exists THEN "skipped"
                                          ELSE IF copied THEN "ok" ELSE "failed",
                                       !.pc = "returned"]
    /\ UNCHANGED <<histVars, execVars, now, immJobs, orphanVars, trigVars,
                   adhocIds, lastRet, callVars, migFiles, migHeld, histFile, defVars, schedVars>>

RECURSIVE record_all(_, _)
\* init_database's loop over the sorted migration files, lines 172-174: each
\* is recorded with no upgrade run
record_all(d, versions) ==
    IF versions = <<>> THEN d
    ELSE record_all(record_migration(d, Head(versions)), Tail(versions))

\* the file HistoryBase.metadata.create_all makes when there is none: the
\* current schema, created directly, and no ledger table
FreshDb == [schema |-> {}, partial |-> {}, table |-> FALSE, ledger |-> {}]

\* the deployment is given an empty database directory: the history
\* database file is not there any more
NewDeployment ==
    /\ migRun.pc # "loop"
    /\ histFile
    /\ histFile' = FALSE
    /\ histDb' = FreshDb
    /\ migRun' = NoRun
    /\ UNCHANGED <<histVars, execVars, now, immJobs, orphanVars, trigVars,
                   adhocIds, lastRet, callVars, migFiles, migHeld, defVars, schedVars>>

\* init_database, lines 149-175, when the history database file does not
\* exist: create_all makes the file; with migration files present the ledger
\* table is created and every version is recorded. The insert of the
\* failAt-th record can raise (failAt = 0: none does), and init_database
\* then raises with the earlier records committed
InitDatabase(failAt) ==
    /\ ~ histFile
    /\ failAt <= Cardinality(get_migration_files)
    /\ histFile' = TRUE
    /\ LET all == Ascending(get_migration_files)
           recorded == IF failAt = 0 THEN all ELSE SubSeq(all, 1, failAt - 1)
       IN  histDb' = IF get_migration_files # {}
                     THEN record_all(create_migrations_table(FreshDb), recorded)
                     ELSE FreshDb
    /\ migRun' = [NoRun EXCEPT !.pc = IF failAt = 0 THEN "init_returned"
                                                    ELSE "init_raised"]
    /\ UNCHANGED <<histVars, execVars, now, immJobs, orphanVars, trigVars,
                   adhocIds, lastRet, callVars, migFiles, migHeld, defVars, schedVars>>

\* init_database, lines 175-177, when the file exists: the pending
\* migrations are run
InitDatabaseExisting(copied) == histFile /\ RunMigrationsStart(copied)

\* ------------------------------------------------------------ specifications
Init ==
    /\ fh = [h \in FhIds |-> AbsentFh]
    /\ nFh = 0
    /\ th = [t \in ThIds |-> AbsentTh]
    /\ nTh = 0
    /\ stack = [w \in Workers |-> <<>>]
    /\ ctxFlow = [w \in Workers |-> 0]
    /\ ctxTask = [w \in Workers |-> 0]
    /\ now = 0
    /\ immJobs = {}
    /\ orphanPc = "idle"
    /\ orphanNow = 0
    /\ trig = [t \in TriggerIds |-> AbsentTrigger]
    /\ nTrig = 0
    /\ jobs = [t \in TriggerIds |-> NoJob]
    /\ instances = [t \in TriggerIds |-> 0]
    /\ syncResult = NoSync
    /\ syncCount = 0
    /\ adhocIds = {}
    /\ lastRet = NoRet
    /\ lastCall = NoCall
    /\ storeUp = TRUE
    /\ migFiles = 0
    /\ migHeld = {}
    /\ histDb = LegacyDb
    /\ migRun = NoRun
    /\ flowTable = {[id |-> f, name |-> f, description |-> <<>>] : f \in FlowIds}
    /\ flowRegistry = [f \in DefIds |-> IF f \in Registry THEN 1 ELSE 0]
    /\ lastDefine = NoDefine
    /\ histFile = TRUE
    /\ engine = StartedEngine
    /\ syncSnap = NoSnap

\* flows and tasks called on worker threads
NextExec ==
    \/ \E w \in Workers, f \in FlowIds : DirectCall(w, f)
    \/ \E w \in Workers, o \in Outcomes : FlowExit(w, o)
    \/ \E w \in Workers : TaskEnter(w)
    \/ \E w \in Workers, o \in Outcomes : TaskExit(w, o)
    \/ \E w \in Workers, id \in ThIds : SetTaskHistoryId(w, id)

SpecExec == Init /\ [][NextExec]_vars

\* a script that calls flows and tasks on its main thread, the bodies
\* reporting progress
MainThread == 1

NextProg ==
    \/ \E f \in FlowIds : DirectCall(MainThread, f)
    \/ \E o \in {"ret", "exc"} : FlowExit(MainThread, o)
    \/ TaskEnter(MainThread)
    \/ \E o \in {"ret", "exc"} : TaskExit(MainThread, o)
    \/ \E id \in ThIds : SetTaskHistoryId(MainThread, id)
    \/ \E v \in ProgressValues : set_progress(MainThread, v)

SpecProg == Init /\ [][NextProg]_vars

\* the history store becomes unavailable (every query and commit raises) or
\* available again
StoreFlip ==
    /\ storeUp' = ~ storeUp
    /\ UNCHANGED <<histVars, execVars, now, immJobs, orphanVars, trigVars,
                   adhocIds, lastRet, lastCall, migVars, defVars, schedVars>>

\* flows run by one-shot jobs, and the flows and tasks their bodies call,
\* while the store comes and goes; add_immediate_job with the store down
\* raises and leaves nothing behind
NextStore ==
    \/ StoreFlip
    \/ \E f \in Registry : storeUp /\ AddImmediateJob(f, 0, "ok")
    \/ \E w \in JobWorkers : ImmFire(w)
    \/ \E w \in JobWorkers : ImmCall(w)
    \/ \E w \in JobWorkers : ImmAfter(w)
    \/ \E w \in JobWorkers, f \in Registry : Len(stack[w]) = 2 /\ DirectCall(w, f)
    \/ \E w \in JobWorkers, o \in {"ret", "exc"} : FlowExit(w, o)
    \/ \E w \in JobWorkers : stack[w] # <<>> /\ TaskEnter(w)
    \/ \E w \in JobWorkers, o \in {"ret", "exc"} : TaskExit(w, o)

SpecStore == Init /\ [][NextStore]_vars

\* releases are installed and the pending migrations are run after each
NextMig ==
    \/ AddMigrationFile
    \/ \E copied \in BOOLEAN : RunMigrationsStart(copied)
    \/ \E o \in MigrationOutcomes, copied \in BOOLEAN : RunMigration(o, copied)

SpecMig == Init /\ [][NextMig]_vars

\* releases with migrations from the main line and from branches that are
\* merged later, the pending migrations being run after each
NextLedger ==
    \/ AddMigrationFile
    \/ BranchMigrationFile
    \/ \E v \in Versions : MergeMigrationFile(v)
    \/ \E copied \in BOOLEAN : RunMigrationsStart(copied)
    \/ \E o \in MigrationOutcomes, copied \in BOOLEAN : RunMigration(o, copied)

SpecLedger == Init /\ [][NextLedger]_vars

\* releases are installed, the database directory is emptied, and
\* init_database runs at every start of the application
NextInit ==
    \/ AddMigrationFile
    \/ NewDeployment
    \/ \E failAt \in 0..MaxMig : InitDatabase(failAt)
    \/ \E copied \in BOOLEAN : InitDatabaseExisting(copied)
    \/ \E o \in MigrationOutcomes, copied \in BOOLEAN : RunMigration(o, copied)

SpecInit == Init /\ [][NextInit]_vars

\* a script whose flow and task bodies end in every way a body can end
NextRaise ==
    \/ \E f \in FlowIds : DirectCall(MainThread, f)
    \/ \E o \in BodyOutcomes : FlowExit(MainThread, o)
    \/ TaskEnter(MainThread)
    \/ \E o \in BodyOutcomes : TaskExit(MainThread, o)

SpecRaise == Init /\ [][NextRaise]_vars

\* ad-hoc runs, orphan detection, restarts; a pool thread runs job functions
\* only, so a task is called there from inside a job's flow
NextAdhoc ==
    \/ \E f \in Registry, d \in {1, MaxDelay}, a \in Args : AddImmediateJob(f, d, a)
    \/ \E w \in JobWorkers : ImmFire(w)
    \/ \E w \in JobWorkers : ImmCall(w)
    \/ \E w \in JobWorkers : ImmAfter(w)
    \/ \E w \in JobWorkers, o \in {"ret", "exc"} : FlowExit(w, o)
    \/ \E w \in JobWorkers : stack[w] # <<>> /\ TaskEnter(w)
    \/ \E w \in JobWorkers, o \in {"ret", "exc"} : TaskExit(w, o)
    \/ OrphanPending
    \/ OrphanRunning
    \/ OrphanTasks
    \/ Tick
    \/ Restart

Spec == Init /\ [][NextAdhoc]_vars

\* triggers: administration, reconciliation, cron firings
NextTrig ==
    \/ \E f \in FlowIds, c \in Crons, k \in Caps, a \in Args : CreateTrigger(f, c, k, a)
    \/ \E t \in TriggerIds, c \in Crons, k \in Caps : UpdateTrigger(t, c, k)
    \/ \E t \in TriggerIds, en \in BOOLEAN : ToggleTrigger(t, en)
    \/ \E t \in TriggerIds : DeleteTrigger(t)
    \/ SyncTriggers
    \/ \E w \in Workers, t \in TriggerIds : TrigFire(w, t)
    \/ \E w \in Workers : TrigCall(w)
    \/ \E w \in Workers, o \in Outcomes : FlowExit(w, o)
    \/ \E w \in Workers : TrigDone(w)

SpecTrig == Init /\ [][NextTrig]_vars

\* trigger administration, reconciliation passes and restarts of an idle
\* process
NextAdmin ==
    \/ \E f \in FlowIds, c \in Crons, k \in Caps, a \in Args : CreateTrigger(f, c, k, a)
    \/ \E t \in TriggerIds, c \in Crons, k \in Caps : UpdateTrigger(t, c, k)
    \/ \E t \in TriggerIds, en \in BOOLEAN : ToggleTrigger(t, en)
    \/ \E t \in TriggerIds : DeleteTrigger(t)
    \/ SyncTriggers
    \/ RestartIdle

SpecAdmin == Init /\ [][NextAdmin]_vars

\* trigger administration in this process and in another one, restarts, and
\* reconciliation passes
NextSync ==
    \/ \E f \in FlowIds, c \in Crons, k \in Caps, a \in Args : CreateTrigger(f, c, k, a)
    \/ \E t \in TriggerIds, c \in Crons, k \in Caps : UpdateTrigger(t, c, k)
    \/ \E t \in TriggerIds, en \in BOOLEAN : ToggleTrigger(t, en)
    \/ \E t \in TriggerIds : DeleteTrigger(t)
    \/ \E t \in TriggerIds, row \in TriggerRows \cup {AbsentTrigger} : ForeignWrite(t, row)
    \/ SyncTriggers
    \/ RestartIdle

SpecSync == Init /\ [][NextSync]_vars

\* ad-hoc runs are requested with and without a job id, the clock advances,
\* the orphan check runs, and the process may be restarted before any job
\* has fired
NextOrphan ==
    \/ \E f \in Registry, d \in {1, MaxDelay}, id \in JobIds :
          AddImmediateJobNamed(f, d, id)
    \/ OrphanPending
    \/ OrphanRunning
    \/ OrphanTasks
    \/ Tick
    \/ Restart

SpecOrphan == Init /\ [][NextOrphan]_vars

\* trigger administration on request threads while the reconciliation job
\* runs on a pool thread
NextRace ==
    \/ \E f \in FlowIds, c \in Crons, k \in Caps, a \in Args : CreateTrigger(f, c, k, a)
    \/ \E t \in TriggerIds, c \in Crons, k \in Caps : UpdateTrigger(t, c, k)
    \/ \E t \in TriggerIds, en \in BOOLEAN : ToggleTrigger(t, en)
    \/ \E t \in TriggerIds : DeleteTrigger(t)
    \/ SyncRead
    \/ SyncApply

SpecRace == Init /\ [][NextRace]_vars

\* a script calls flows and tasks, whose bodies return, while the clock
\* advances and the cleanup job runs on a pool thread
NextClean ==
    \/ \E f \in Registry : DirectCall(MainThread, f)
    \/ FlowExit(MainThread, "ret")
    \/ TaskEnter(MainThread)
    \/ TaskExit(MainThread, "ret")
    \/ Tick
    \/ \E d \in RetentionDays : cleanup_history_data(d)

SpecClean == Init /\ [][NextClean]_vars

\* a script whose task bodies bind their row id and report progress; from
\* the moment an id is bound the clock advances and the cleanup job may run
\* on a pool thread
NextProgClean ==
    \/ \E f \in Registry : stack[MainThread] = <<>> /\ DirectCall(MainThread, f)
    \/ FlowExit(MainThread, "ret")
    \/ TaskEnter(MainThread)
    \/ TaskExit(MainThread, "ret")
    \/ \E id \in ThIds : SetTaskHistoryId(MainThread, id)
    \/ \E v \in ProgressValues : ctxTask[MainThread] # 0 /\ set_progress(MainThread, v)
    \/ ctxTask[MainThread] # 0 /\ Tick
    \/ \E d \in RetentionDays : ctxTask[MainThread] # 0 /\ cleanup_history_data(d)

SpecProgClean == Init /\ [][NextProgClean]_vars

\* the scheduler is started and shut down, ad-hoc runs are requested and
\* triggers administered, in the web application and in fresh processes
NextEngine ==
    \/ StartScheduler
    \/ ShutdownScheduler
    \/ NewProcess
    \/ \E f \in Registry : AddImmediateJobCall(f, 1)
    \/ \E f \in FlowIds, c \in Crons, k \in Caps, a \in Args : CreateTrigger(f, c, k, a)
    \/ \E t \in TriggerIds, en \in BOOLEAN : ToggleTrigger(t, en)
    \/ \E t \in TriggerIds : DeleteTrigger(t)

SpecEngine == Init /\ [][NextEngine]_vars

\* how a body can end when its result may not be serializable
SerOutcomes == {"ret", "ret_unser", "ret_unprintable", "exc"}

\* a script that calls flows and tasks whose results may not be serializable
NextSer ==
    \/ \E f \in Registry : DirectCall(MainThread, f)
    \/ \E o \in SerOutcomes : FlowExit(MainThread, o)
    \/ TaskEnter(MainThread)
    \/ \E o \in SerOutcomes : TaskExit(MainThread, o)

SpecSer == Init /\ [][NextSer]_vars

\* a script that calls flows and tasks on its main thread while an operator
\* deletes execution history through the web service
NextDelete ==
    \/ \E f \in Registry : DirectCall(MainThread, f)
    \/ \E o \in {"ret", "exc"} : FlowExit(MainThread, o)
    \/ TaskEnter(MainThread)
    \/ \E o \in {"ret", "exc"} : TaskExit(MainThread, o)
    \/ \E h \in FhIds : delete_flow_history(h)
    \/ \E ids \in SUBSET FhIds : Cardinality(ids) > 1
                                   /\ batch_delete_flow_history(ids)

SpecDelete == Init /\ [][NextDelete]_vars

\* modules that define flows are imported, in any order and any number of
\* times
NextDefine ==
    \E f \in DefIds, name \in Names, desc \in Descs, func \in Funcs :
        DefineFlow(f, name, desc, func)

SpecDefine == Init /\ [][NextDefine]_vars

\* =================================================================== claims
\* the innermost flow wrapper enclosing position i of a call chain (0: none)
RECURSIVE EnclosingFlow(_, _)
EnclosingFlow(st, i) ==
    IF i < 1 THEN 0
    ELSE IF st[i].kind = "flow" THEN st[i].hid
    ELSE EnclosingFlow(st, i - 1)

FlowHidsOn(w) == {stack[w][i].hid : i \in {k \in 1..Len(stack[w]) : stack[w][k].kind = "flow"}}

Rank(st) ==
    CASE st = "pending" -> 1
      [] st = "running" -> 2
      [] st \in Terminal -> 3
      [] OTHER -> 0

\* C1: when a top-level invocation of a registered flow has returned, exactly
\* one FlowHistory row belongs to it and that row is completed or failed.
C1_OneTerminalRow ==
    lastRet.kind # "none" =>
        /\ Cardinality(lastRet.rows) = 1
        /\ lastRet.status \subseteq Terminal

\* C2: a row's status never moves backwards (pending, running, terminal), and
\* a completed or failed row keeps its status, end_time and output.
C2_MonotonicImmutable ==
    [][\A h \in FhIds :
          /\ (FhExists(h) /\ fh'[h].status # "absent") =>
                 Rank(fh'[h].status) >= Rank(fh[h].status)
          /\ (fh[h].status \in Terminal /\ fh'[h].status # "absent") =>
                 /\ fh'[h].status = fh[h].status
                 /\ fh'[h].end_time = fh[h].end_time
                 /\ fh'[h].output_data = fh[h].output_data]_vars

\* C3: the second of two reconciliation passes with no trigger mutation in
\* between performs no add, update or remove.
C3_SecondPassIdle ==
    syncCount = 2 =>
        syncResult.added + syncResult.updated + syncResult.removed = 0

\* C4: a firing of trigger T's cron job is admitted (and goes on to create a
\* row) only while fewer than T.max_instances executions fired by the job are
\* in flight; with the cap met the firing is skipped.
C4_CapRespected ==
    [][\A t \in TriggerIds :
          (instances'[t] > instances[t] /\ trig[t].exists) =>
              instances[t] < trig[t].max_instances]_vars

\* C5: every task running inside a flow execution has a TaskHistory row whose
\* flow_history_id is the id of the innermost flow execution enclosing it on
\* its own thread, and never the id of an execution on another thread.
C5_TaskAttribution ==
    \A w \in Workers : \A i \in 1..Len(stack[w]) :
        (stack[w][i].kind = "task" /\ EnclosingFlow(stack[w], i) # 0) =>
            /\ stack[w][i].hid # 0
            /\ th[stack[w][i].hid].flow_history_id = EnclosingFlow(stack[w], i)
            /\ \A w2 \in Workers \ {w} :
                   th[stack[w][i].hid].flow_history_id \notin FlowHidsOn(w2)

\* two executions on different threads, one of them inside a task
C5_Witness ==
    \E w \in Workers, w2 \in Workers :
        /\ w # w2
        /\ stack[w] # <<>> /\ Top(w).kind = "task" /\ Top(w).hid # 0
        /\ FlowHidsOn(w2) # {}
        /\ FlowHidsOn(w2) # FlowHidsOn(w)

\* C6: a worker that has returned from every flow and task call carries no
\* ambient flow-execution id and no ambient task id, and inside a call chain
\* the ambient flow id is that of the innermost flow execution.
C6_NoStaleIds ==
    \A w \in Workers :
        /\ ctxFlow[w] = EnclosingFlow(stack[w], Len(stack[w]))
        /\ stack[w] = <<>> => ctxTask[w] = 0

\* the rows that exist are the pre-created rows of the ad-hoc runs, and a
\* wrapper started by a one-shot job works on the row its job carries
C7_RowsAreRuns ==
    /\ nFh = Cardinality(adhocIds)
    /\ \A h \in FhIds : FhExists(h) <=> h \in adhocIds
    /\ \A w \in Workers : \A i \in 1..Len(stack[w]) :
          (stack[w][i].kind = "flow" /\ stack[w][i].via = "adhoc") =>
              /\ i > 1
              /\ stack[w][i - 1].kind = "imm"
              /\ stack[w][i].hid = stack[w][i - 1].hid
              /\ stack[w][i].hid \in adhocIds
              /\ stack[w][i].made = 0
              /\ fh[stack[w][i].hid].status # "pending"
    /\ \A w \in Workers : \A i \in 1..Len(stack[w]) :
          stack[w][i].kind = "imm" => stack[w][i].made = 0

\* the step in which add_immediate_job returns a new id
C7_PendingOnReturn ==
    \A h \in FhIds :
        (h \in adhocIds' /\ h \notin adhocIds) =>
            /\ ~ FhExists(h)
            /\ fh'[h].status = "pending"
            /\ nFh' = nFh + 1
            /\ h = nFh'
            /\ \E j \in immJobs' : j.hid = h /\ j \notin immJobs

ExecutionLost(h) ==
    /\ ~ \E j \in immJobs : j.hid = h
    /\ ~ \E w \in Workers : \E i \in 1..Len(stack[w]) :
           stack[w][i].kind \in {"flow", "imm"} /\ stack[w][i].hid = h

\* C8: one pass over the pending rows fails, with the synthetic error and an
\* end_time, every pending row older than the timeout whose own one-shot job
\* is gone without a thread having taken it up, and leaves the younger
\* pending rows as they are.
C8_PendingPass ==
    [][(orphanPc = "idle" /\ orphanPc' = "pending_done") =>
          \A h \in FhIds :
              /\ (/\ fh[h].status = "pending"
                  /\ fh[h].created_at < now - PendingTimeout
                  /\ ExecutionLost(h)) =>
                     /\ fh'[h].status = "failed"
                     /\ fh'[h].end_time # NoTime
                     /\ fh'[h].output_data = "lost_pending"
              /\ (/\ fh[h].status = "pending"
                  /\ ~ (fh[h].created_at < now - PendingTimeout)) =>
                     fh'[h] = fh[h]]_vars

\* C9: a running row whose execution is lost and whose start_time is older
\* than the running timeout is terminal after the pass over the running rows,
\* with or without task rows still marked running.
C9_RunningPass ==
    [][(orphanPc = "pending_done" /\ orphanPc' = "running_done") =>
          \A h \in FhIds :
              (/\ fh[h].status = "running"
               /\ fh[h].start_time < orphanNow - RunningTimeout
               /\ ExecutionLost(h)) =>
                  fh'[h].status \in Terminal]_vars

\* C10: a task called with a flow-execution id bound commits a running row
\* linked to that id before its body starts, and when the body ends that row
\* gets an end_time and a terminal status.
C10_TaskEnterStep(w) ==
    (/\ Len(stack'[w]) = Len(stack[w]) + 1
     /\ stack'[w][Len(stack'[w])].kind = "task"
     /\ ctxFlow[w] # 0) =>
        LET t == stack'[w][Len(stack'[w])].hid
        IN  /\ t # 0
            /\ ~ ThExists(t)
            /\ th'[t].status = "running"
            /\ th'[t].flow_history_id = ctxFlow[w]
            /\ th'[t].end_time = NoTime

C10_TaskExitStep(w) ==
    (/\ Len(stack[w]) = Len(stack'[w]) + 1
     /\ Top(w).kind = "task"
     /\ Top(w).hid # 0) =>
        /\ th'[Top(w).hid].status \in TaskTerminal
        /\ th'[Top(w).hid].end_time # NoTime
        /\ th'[Top(w).hid].flow_history_id = th[Top(w).hid].flow_history_id

TaskStarts(w) ==
    /\ Len(stack'[w]) = Len(stack[w]) + 1
    /\ stack'[w][Len(stack'[w])].kind = "task"

TaskEnds(w) ==
    /\ Len(stack[w]) = Len(stack'[w]) + 1
    /\ Top(w).kind = "task"

\* C11: a task called with no flow-execution id bound starts its body without
\* a row, hands the body's result or exception to the caller unchanged, and no
\* TaskHistory row is created or modified from its start to its end.
C11_UnboundTask ==
    [][\A w \in Workers :
          /\ (TaskStarts(w) /\ ctxFlow[w] = 0) =>
                 /\ stack'[w][Len(stack'[w])].pc = "body"
                 /\ stack'[w][Len(stack'[w])].hid = 0
                 /\ th' = th /\ nTh' = nTh
          /\ (TaskEnds(w) /\ ctxFlow[w] = 0) =>
                 /\ th' = th /\ nTh' = nTh
                 /\ lastCall'.kind = "task" /\ lastCall'.row = 0
                 /\ lastCall'.seen = lastCall'.body]_vars

\* an unbound task has raised to its caller while rows of a flow exist
C11_Witness ==
    /\ lastCall.kind = "task" /\ lastCall.row = 0
    /\ lastCall.body = "exc" /\ lastCall.seen = "exc"
    /\ nFh > 0 /\ nTh = 0
    /\ \A w \in Workers : ctxFlow[w] = 0

\* what set_progress returned for the value and the binding it was given
C12_ReturnsFalse ==
    lastCall.kind = "set_progress" =>
        /\ lastCall.val \notin 0..100 => lastCall.seen = "false"
        /\ lastCall.row = 0 => lastCall.seen = "false"

\* the only step that changes the progress of a row is a set_progress that
\* was given a valid value with that row's id bound, and returned true
C12_ProgressWrites ==
    \A t \in ThIds :
        (ThExists(t) /\ th'[t].progress # th[t].progress) =>
            /\ lastCall' = ProgressCalled(t, th'[t].progress, "true")
            /\ th'[t].progress \in 0..100

\* C12: set_progress with a value outside 0..100 returns false whatever task
\* id is bound, set_progress with a valid value and no task id bound returns
\* false, and neither call changes a TaskHistory row.
C12_RejectedProgress == []C12_ReturnsFalse /\ [][C12_ProgressWrites]_vars

\* an out-of-range value was rejected while a task id was bound, and the
\* bound row still has no progress
C12_Witness ==
    /\ lastCall = ProgressCalled(1, 150, "false")
    /\ ThExists(1) /\ th[1].progress = NoTime

\* the TaskHistory rows linked to FlowHistory row h
TasksOf(tbl, h) == {t \in ThIds : tbl[t].status # "absent" /\ tbl[t].flow_history_id = h}

\* C13: when a directly invoked flow whose body called two tasks in sequence,
\* each passing 100 to set_progress last and returning, itself returns, its
\* FlowHistory row is completed and exactly two TaskHistory rows are linked to
\* it, both completed and both with progress 100.
C13_EndToEnd ==
    [][\A w \in Workers :
          (/\ Len(stack[w]) = 1 /\ stack'[w] = <<>>
           /\ Top(w).kind = "flow" /\ Top(w).via = "direct"
           /\ Top(w).log = <<(<<100, "ret">>), (<<100, "ret">>)>>
           /\ lastCall'.kind = "flow" /\ lastCall'.body = "ret") =>
              /\ fh'[Top(w).hid].status = "completed"
              /\ Cardinality(TasksOf(th', Top(w).hid)) = 2
              /\ \A t \in TasksOf(th', Top(w).hid) :
                    th'[t].status = "completed" /\ th'[t].progress = 100]_vars

\* C14: execute_flow called with a flow id that is not in the registry
\* returns the not-found failure result to its caller without raising, starts
\* no function, and creates or modifies no FlowHistory row.
C14_UnknownFlow ==
    [][\A w \in Workers :
          (/\ stack[w] # <<>> /\ stack'[w] # stack[w]
           /\ Top(w).kind = "trig" /\ Top(w).pc = "start"
           /\ trig[Top(w).t].exists /\ trig[Top(w).t].enabled
           /\ trig[Top(w).t].flow_id \notin Registry) =>
              /\ Len(stack'[w]) = Len(stack[w])
              /\ stack'[w][Len(stack[w])].pc = "after"
              /\ stack'[w][Len(stack[w])].res = "not_found"
              /\ fh' = fh /\ nFh' = nFh /\ th' = th
              /\ ctxFlow' = ctxFlow]_vars

\* a cron firing has called execute_flow for an unregistered flow id
C14_Witness ==
    \E w \in Workers :
        /\ stack[w] # <<>>
        /\ Top(w).kind = "trig" /\ Top(w).pc = "after"
        /\ Top(w).res = "not_found"
        /\ Top(w).flow \notin Registry

\* the step of worker w that ends a flow wrapper of a direct call
FlowEnds(w) ==
    /\ Len(stack[w]) = Len(stack'[w]) + 1
    /\ Top(w).kind = "flow" /\ Top(w).via = "direct"

\* C15: when the body of a flow or task raises, the wrapper finalizes its row
\* as failed, with an end_time and the error as output, and hands the same
\* exception to its caller; the row is not completed.
C15_FailedThenRaised ==
    [][\A w \in Workers :
          /\ (FlowEnds(w) /\ lastCall'.body \in {"exc", "base_exc"}) =>
                 /\ lastCall'.seen = lastCall'.body
                 /\ Top(w).hid # 0 =>
                       /\ fh'[Top(w).hid].status = "failed"
                       /\ fh'[Top(w).hid].end_time # NoTime
                       /\ fh'[Top(w).hid].output_data = "error"
          /\ (TaskEnds(w) /\ lastCall'.body \in {"exc", "base_exc"}) =>
                 /\ lastCall'.seen = lastCall'.body
                 /\ Top(w).hid # 0 =>
                       /\ th'[Top(w).hid].status = "failed"
                       /\ th'[Top(w).hid].end_time # NoTime
                       /\ th'[Top(w).hid].output_data = "error"]_vars

CallStarts(w) ==
    /\ Len(stack'[w]) = Len(stack[w]) + 1
    /\ stack'[w][Len(stack'[w])].kind \in {"flow", "task"}

CallReturns(w) ==
    /\ Len(stack[w]) = Len(stack'[w]) + 1
    /\ Top(w).kind \in {"flow", "task"}

\* C16: whether the history store is reachable or not when a flow or task
\* wrapper creates its row, promotes a pre-created row or finalizes, the call
\* starts its body, and when the body ends the caller receives the body's own
\* return or exception; with the store down no row is written.
C16_StoreIndependent ==
    [][\A w \in Workers :
          /\ CallStarts(w) =>
                 /\ stack'[w][Len(stack'[w])].pc = "body"
                 /\ ~ storeUp => fh' = fh /\ th' = th
          /\ CallReturns(w) =>
                 /\ lastCall'.kind = Top(w).kind
                 /\ lastCall'.body \in {"ret", "exc"}
                 /\ lastCall'.seen = lastCall'.body
                 /\ ~ storeUp => fh' = fh /\ th' = th]_vars

\* a flow started by a one-shot job whose promotion and finalization both
\* failed (its row is still pending) has handed its body's exception on
C16_Witness ==
    /\ lastCall.kind = "flow" /\ lastCall.row # 0
    /\ lastCall.body = "exc" /\ lastCall.seen = "exc"
    /\ fh[lastCall.row].status = "pending"
    /\ ~ storeUp

\* C17: after a batch in which one migration succeeded and the next failed,
\* and whose backup was copied back, the file's schema is that of the
\* pre-batch backup and the ledger holds the backup's entries plus the entry
\* of the successful migration, one entry for a success count of 1.
C17_RestoredWithLedger ==
    (/\ migRun.pc = "returned"
     /\ migRun.success_count = 1 /\ migRun.failed_count = 1
     /\ migRun.restore = "ok") =>
        /\ histDb.schema = migRun.backup.copy.schema
        /\ histDb.partial = migRun.backup.copy.partial
        /\ histDb.ledger = migRun.backup.copy.ledger \cup {migRun.upgraded[1]}
        /\ Cardinality(histDb.ledger \ migRun.pre.ledger) = migRun.success_count

\* C18: when run_migrations has returned after a failure, the upgrades it
\* called are the pending list up to the failing migration and nothing after
\* it, a restore from the backup was attempted, and it reports one failure,
\* one message naming the failing migration, and as many successes as
\* migrations applied before it; the counts never exceed the pending list.
C18_StopsAtFirstFailure ==
    /\ migRun.success_count + migRun.failed_count <= Len(migRun.pending)
    /\ (migRun.pc = "returned" /\ migRun.failed_count > 0) =>
          /\ migRun.failed_count = 1
          /\ Len(migRun.errors) = 1
          /\ migRun.errors[1] = migRun.upgraded[Len(migRun.upgraded)]
          /\ migRun.success_count = Len(migRun.upgraded) - 1
          /\ migRun.upgraded = SubSeq(migRun.pending, 1, Len(migRun.upgraded))
          /\ migRun.restore \in {"ok", "failed"}

BatchStarts == migRun.pc # "loop" /\ migRun' # migRun

UpgradeRuns == migRun.pc = "loop" /\ Len(migRun'.upgraded) = Len(migRun.upgraded) + 1

\* C19: a batch's pending list is the shipped migrations above the highest
\* ledger version, ascending; upgrades are called in that order, each on a
\* version the ledger does not hold, and a successful one is in the ledger
\* once run_migration returns; a batch without failure has called them all,
\* and a batch with nothing pending returns (0, 0, []) and changes nothing.
C19_PendingInOrder ==
    [][/\ BatchStarts =>
             LET p == migRun'.pending
             IN  /\ {p[i] : i \in 1..Len(p)} =
                       {v \in 1..migFiles : \A u \in histDb.ledger : v > u}
                 /\ \A i \in 1..Len(p), j \in 1..Len(p) : i < j => p[i] < p[j]
                 /\ p = <<>> =>
                       /\ migRun'.pc = "returned"
                       /\ migRun'.success_count = 0 /\ migRun'.failed_count = 0
                       /\ migRun'.errors = <<>> /\ migRun'.upgraded = <<>>
                       /\ histDb' = histDb
       /\ UpgradeRuns =>
             LET v == migRun'.upgraded[Len(migRun'.upgraded)]
             IN  /\ v = migRun.pending[Len(migRun.upgraded) + 1]
                 /\ v \notin histDb.ledger
                 /\ migRun'.success_count = migRun.success_count + 1 =>
                       v \in histDb'.ledger /\ v \in histDb'.schema
                 /\ (migRun'.pc = "returned" /\ migRun'.failed_count = 0) =>
                       migRun'.upgraded = migRun.pending]_vars

\* a run after a second and a third release applied versions 2 and 3 on top
\* of a ledger that already held version 1
C19_Witness ==
    /\ migRun.pc = "returned" /\ migRun.failed_count = 0
    /\ migRun.pre.ledger = {1}
    /\ migRun.upgraded = <<2, 3>>
    /\ histDb.ledger = {1, 2, 3}

\* C20: over administrative operations, reconciliation passes and restarts,
\* a trigger that has just been created has a live unpaused job, one that
\* has just been disabled has a live paused job, one that has just been
\* enabled has a live unpaused job, and one that has just been deleted has
\* no job.
C20_JobStateMachine ==
    [][\A t \in TriggerIds :
          /\ (~ trig[t].exists /\ trig'[t].exists) =>
                 jobs'[t].exists /\ ~ jobs'[t].paused
          /\ (trig[t].exists /\ trig'[t].exists
                /\ trig[t].enabled /\ ~ trig'[t].enabled) =>
                 jobs'[t].exists /\ jobs'[t].paused
          /\ (trig[t].exists /\ trig'[t].exists
                /\ ~ trig[t].enabled /\ trig'[t].enabled) =>
                 jobs'[t].exists /\ ~ jobs'[t].paused
          /\ (trig[t].exists /\ ~ trig'[t].exists) => ~ jobs'[t].exists]_vars

\* C21: a cleanup pass with window W deletes every FlowHistory row created
\* before now - W and every TaskHistory row that references one of them, in
\* one step; rows created within the window, and the task rows of those, are
\* left as they are; no task row of a deleted parent remains.
C21_RetentionCleanup ==
    [][\A d \in RetentionDays :
          cleanup_history_data(d) =>
             /\ \A h \in FhIds :
                   /\ (FhExists(h) /\ fh[h].created_at < now - d) =>
                          fh'[h].status = "absent"
                   /\ (FhExists(h) /\ fh[h].created_at >= now - d) =>
                          fh'[h] = fh[h]
             /\ \A t \in ThIds :
                   ThExists(t) =>
                      LET p == th[t].flow_history_id
                      IN  /\ (FhExists(p) /\ fh'[p].status = "absent") =>
                                 th'[t].status = "absent"
                          /\ (FhExists(p) /\ fh'[p].status # "absent") =>
                                 th'[t] = th[t]]_vars

\* a pass has deleted a flow row and its task row and kept a younger flow
\* row with its task row
C21_Witness ==
    /\ nFh = 2 /\ nTh = 2
    /\ fh[1].status = "absent" /\ th[1].status = "absent"
    /\ fh[2].status # "absent" /\ th[2].status # "absent"
    /\ th[2].flow_history_id = 2

\* C22: after a flow has been defined, however often its id was defined
\* before, the Flow table holds exactly one row for the id, with the name and
\* the description of this latest definition, and the registry entry that
\* execute_flow looks up is the function of this latest definition.
C22_IdempotentUpsert ==
    lastDefine.id # <<>> =>
        LET rows == {r \in flowTable : r.id = lastDefine.id}
        IN  /\ Cardinality(rows) = 1
            /\ \A r \in rows :
                  /\ r.name = IF lastDefine.name # <<>> THEN lastDefine.name
                              ELSE lastDefine.id
                  /\ r.description = lastDefine.desc
            /\ flowRegistry[lastDefine.id] = lastDefine.func

\* C23: when a reconciliation pass ends, every enabled trigger has a live,
\* unpaused job with the stored cron expression and max_instances, every
\* live job of a disabled trigger is paused, and no job is left whose trigger
\* row does not exist.
C23_Reconciled ==
    [][SyncTriggers =>
          \A t \in TriggerIds :
             /\ (trig[t].exists /\ trig[t].enabled) =>
                    /\ jobs'[t].exists /\ ~ jobs'[t].paused
                    /\ jobs'[t].fields = from_crontab(trig[t].cron_expression)
                    /\ jobs'[t].max_instances = trig[t].max_instances
             /\ (trig[t].exists /\ ~ trig[t].enabled /\ jobs'[t].exists) =>
                    jobs'[t].paused
             /\ ~ trig[t].exists => ~ jobs'[t].exists]_vars

\* C24: a reconciliation pass counts a pause only for disabled triggers whose
\* live job is unpaused and a resume only for enabled triggers whose live job
\* is paused; a disabled trigger whose job is already paused, or that has no
\* job, is not counted and its job is not touched.
C24_PauseResumeOnChange ==
    [][SyncTriggers =>
          /\ syncResult'.paused <=
                Cardinality({t \in TriggerIds :
                                /\ trig[t].exists /\ ~ trig[t].enabled
                                /\ jobs[t].exists /\ ~ jobs[t].paused})
          /\ syncResult'.resumed <=
                Cardinality({t \in TriggerIds :
                                /\ trig[t].exists /\ trig[t].enabled
                                /\ jobs[t].exists /\ jobs[t].paused})
          /\ \A t \in TriggerIds :
                (/\ trig[t].exists /\ ~ trig[t].enabled
                 /\ (~ jobs[t].exists \/ jobs[t].paused)) =>
                    jobs'[t] = jobs[t]]_vars

JobCarriesConfig(t) ==
    /\ jobs'[t].exists
    /\ jobs'[t].fields = from_crontab(trig'[t].cron_expression)
    /\ jobs'[t].max_instances = trig'[t].max_instances

\* C25: every enabled trigger has a live job under its id at all times; when
\* update_trigger has changed the cron expression or max_instances of an
\* enabled trigger the job carries the stored values; and when a disabled
\* trigger has been enabled the job carries the values stored at that moment,
\* changes made while it was disabled included.
C25_OneJobWithStoredConfig ==
    /\ [](\A t \in TriggerIds : (trig[t].exists /\ trig[t].enabled) => jobs[t].exists)
    /\ [][\A t \in TriggerIds :
             /\ (/\ trig[t].exists /\ trig'[t].exists /\ trig'[t].enabled
                 /\ <<trig'[t].cron_expression, trig'[t].max_instances>> #
                       <<trig[t].cron_expression, trig[t].max_instances>>) =>
                    JobCarriesConfig(t)
             /\ (/\ trig[t].exists /\ trig'[t].exists
                 /\ ~ trig[t].enabled /\ trig'[t].enabled) =>
                    JobCarriesConfig(t)]_vars

C27_NoRunningUnderTerminal ==
    [][OrphanTasks =>
          \A t \in ThIds :
             (/\ th[t].status = "running"
              /\ FhExists(th[t].flow_history_id)
              /\ fh[th[t].flow_history_id].status \in Terminal) =>
                 /\ th'[t].status = fh[th[t].flow_history_id].status
                 /\ th'[t].end_time = fh[th[t].flow_history_id].end_time]_vars

\* C28: the progress of a TaskHistory row changes only while the row's
\* status is running; no set_progress call changes a row that is completed,
\* failed or completed_with_serialization_error.
C28_ProgressOnlyWhileRunning ==
    [][\A t \in ThIds :
          th'[t].progress # th[t].progress => th[t].status = "running"]_vars

\* C29: whenever set_progress(v) returns true, the TaskHistory row of the
\* bound task id exists and holds progress v when the call returns; a call
\* that wrote no row returns false.
C29_TrueMeansWritten ==
    [][\A v \in ProgressValues :
          (set_progress(MainThread, v) /\ lastCall'.seen = "true") =>
              /\ ctxTask[MainThread] \in ThIds
              /\ th'[ctxTask[MainThread]].status # "absent"
              /\ th'[ctxTask[MainThread]].progress = v]_vars

\* C30: an init_database that finds no history database file and returns
\* runs no upgrade and leaves the ledger with exactly the known migration
\* versions, so that nothing is pending; a second init_database on that
\* store finds no pending migration and changes nothing.
C30_NewStoreMarkedApplied ==
    /\ [][(~ histFile /\ histFile' /\ migRun'.pc = "init_returned") =>
             /\ migRun'.upgraded = <<>>
             /\ histDb'.schema = {} /\ histDb'.partial = {}
             /\ histDb'.ledger = get_migration_files
             /\ get_pending_migrations(histDb') = <<>>]_vars
    /\ [][\A copied \in BOOLEAN :
             (migRun.pc = "init_returned" /\ histDb.ledger = get_migration_files
                 /\ InitDatabaseExisting(copied)) =>
             /\ migRun'.pc = "returned" /\ migRun'.pending = <<>>
             /\ migRun'.upgraded = <<>>
             /\ histDb' = histDb]_vars

\* a store created by init_database with two or more migrations known, after
\* the second init_database has returned
C30_Witness ==
    /\ migFiles >= 2
    /\ histFile /\ migRun.pc = "returned" /\ migRun.pre = histDb
    /\ histDb.schema = {} /\ histDb.ledger = get_migration_files

\* C31: in every reachable state every TaskHistory row references a
\* FlowHistory row that exists, also when a FlowHistory row is deleted while
\* its flow is still executing.
C31_TaskRowsHaveFlowRow ==
    \A t \in ThIds : ThExists(t) => FhExists(th[t].flow_history_id)

\* C32: while a flow started by a cron firing is executing, the FlowHistory
\* row it inserted carries the provenance metadata that execute_trigger
\* passed ("scheduled": trigger id, name and type).
C32_CronRowHasProvenance ==
    \A w \in Workers : \A i \in 1..Len(stack[w]) :
        (stack[w][i].kind = "flow" /\ stack[w][i].via = "cron"
            /\ FhExists(stack[w][i].hid)) =>
        fh[stack[w][i].hid].flow_metadata = "scheduled"

\* C33: when a flow or task wrapper with a history row ends, the row is in a
\* terminal status and the caller receives what the body produced; when the
\* body returned a result that cannot be serialized the row's output is the
\* substitute payload, and a task's status is then
\* completed_with_serialization_error.
C33_SerializationFailureKeepsRow ==
    [][\A o \in SerOutcomes :
          /\ (TaskExit(MainThread, o) /\ ThExists(Top(MainThread).hid)) =>
                LET t == Top(MainThread).hid
                IN  /\ lastCall'.seen = o
                    /\ th'[t].status \in {"completed", "failed",
                                          "completed_with_serialization_error"}
                    /\ o \in {"ret_unser", "ret_unprintable"} =>
                          /\ th'[t].status = "completed_with_serialization_error"
                          /\ th'[t].output_data = "unserializable"
          /\ (FlowExit(MainThread, o) /\ FhExists(Top(MainThread).hid)) =>
                LET h == Top(MainThread).hid
                IN  /\ lastCall'.seen = o
                    /\ fh'[h].status \in {"completed", "failed"}
                    /\ o \in {"ret_unser", "ret_unprintable"} =>
                          fh'[h].output_data = "unserializable"]_vars

\* C34: there is never more than one scheduling-engine instance; a
\* start_scheduler call while the scheduler is started changes nothing, and
\* a shutdown_scheduler call while it is not started changes nothing.
C34_StartStopIdempotent ==
    /\ [](engine.created <= 1)
    /\ [][(StartScheduler /\ engine.started) => UNCHANGED vars]_vars
    /\ [][(ShutdownScheduler /\ ~ engine.started) => UNCHANGED vars]_vars

\* the scheduler started again after a shutdown, in a process whose engine
\* was created by add_immediate_job
C34_Witness ==
    /\ engine.created = 1 /\ engine.started /\ engine.loads = MaxStarts
    /\ immJobs # {}

\* C35: when a reconciliation pass ends that read its snapshot before an
\* administrative mutation committed, the live jobs agree with the store: a
\* disabled trigger has no unpaused job, a deleted trigger has no job, and
\* an enabled trigger has an unpaused job with its stored configuration.
C35_RaceLeavesAgreement ==
    [][(SyncApply /\ syncSnap.rows # trig) =>
          \A t \in TriggerIds :
             /\ (trig'[t].exists /\ ~ trig'[t].enabled /\ jobs'[t].exists) =>
                    jobs'[t].paused
             /\ ~ trig'[t].exists => ~ jobs'[t].exists
             /\ (trig'[t].exists /\ trig'[t].enabled) =>
                    JobCarriesConfig(t) /\ ~ jobs'[t].paused]_vars

\* C36: when execute_trigger runs for a trigger whose row is absent or
\* disabled, it invokes no flow and no FlowHistory row is created or changed,
\* whatever the state of the job that fired.
C36_NoRunWithoutEnabledRow ==
    [][\A w \in Workers :
          (/\ stack[w] # <<>> /\ stack'[w] # stack[w]
           /\ Top(w).kind = "trig" /\ Top(w).pc = "start"
           /\ ~ (trig[Top(w).t].exists /\ trig[Top(w).t].enabled)) =>
              /\ Len(stack'[w]) = Len(stack[w])
              /\ stack'[w][Len(stack[w])].pc = "after"
              /\ stack'[w][Len(stack[w])].res = "none"
              /\ fh' = fh /\ nFh' = nFh /\ th' = th]_vars

\* a firing has ended without a flow for a trigger that was deleted after
\* its job had fired
C36_Witness ==
    \E w \in Workers :
        /\ stack[w] # <<>>
        /\ Top(w).kind = "trig" /\ Top(w).pc = "after" /\ Top(w).res = "none"
        /\ ~ trig[Top(w).t].exists

\* C37: the orphan check leaves pending every pending row whose own one-shot
\* job is live and due in the future, whatever job id was passed; and it
\* marks failed an expired pending row whose own job is gone, also when a job
\* of another pending row of the same flow is live.
C37_OwnJobDecides ==
    [][OrphanPending =>
          \A h \in FhIds :
             fh[h].status = "pending" =>
                /\ (\E j \in immJobs : j.hid = h /\ j.run_at > now) =>
                       fh'[h].status = "pending"
                /\ (/\ fh[h].created_at < now - PendingTimeout
                    /\ ~ \E j \in immJobs : j.hid = h) =>
                       fh'[h].status = "failed"]_vars

\* C38: when execute_immediate_flow returns, the pre-created FlowHistory row
\* is terminal: completed when the flow returned, failed when the flow id is
\* not registered, the call could not be made or the flow raised.
C38_AdhocRowTerminal ==
    [][\A w \in JobWorkers :
          (ImmAfter(w) /\ FhExists(Top(w).hid)) =>
              fh'[Top(w).hid].status =
                  IF Top(w).res = "ok" THEN "completed" ELSE "failed"]_vars

\* C39: a retention cleanup pass deletes no FlowHistory row that is pending
\* or running, so an executing flow still has its row when it ends.
C39_CleanupSparesLiveRows ==
    [][\A d \in RetentionDays :
          cleanup_history_data(d) =>
             \A h \in FhIds :
                fh[h].status \in {"pending", "running"} => fh'[h] = fh[h]]_vars

\* C40: when run_migrations returns with no failure, every known migration
\* version is recorded in the ledger, whatever versions the ledger held
\* before the call.
C40_NoFailureMeansAllRecorded ==
    [][(/\ migRun' # migRun
        /\ migRun'.pc = "returned"
        /\ migRun'.failed_count = 0) =>
            get_migration_files \subseteq histDb'.ledger]_vars

====
